---- MODULE Spec2Model ----
(* Verification model of ssttevee/js-graphql-jerky: the schema document    *)
(* merger (src/generate/merge.ts), the package registry                    *)
(* (src/generate/utils/packages.ts), the renderer's file assembly          *)
(* (src/generate/generate.ts) and the command's main (command/jerky).      *)
EXTENDS Integers, Sequences, FiniteSets, TLC

(***************************************************************************)
(* Generic sequence helpers                                                *)
(***************************************************************************)
Max(a, b) == IF a >= b THEN a ELSE b

\* index of the first element of s whose name is n, 0 when there is none
RECURSIVE IndexOfName(_, _, _)
IndexOfName(s, n, i) ==
    IF i > Len(s) THEN 0
    ELSE IF s[i].name = n THEN i
    ELSE IndexOfName(s, n, i + 1)

HasName(s, n) == IndexOfName(s, n, 1) # 0

NamesOf(s) == [i \in 1..Len(s) |-> s[i].name]

DistinctNames(s) == \A i, j \in 1..Len(s) : s[i].name = s[j].name => i = j

(***************************************************************************)
(* JavaScript values the merger handles                                    *)
(***************************************************************************)
\* the value `undefined`: an absent optional property, or zip's padding
Undef == [kind |-> "undefined"]

\* a node without a location (the merged scalar definition carries no loc)
NoLoc == [file |-> 0, def |-> 0, at |-> ""]

\* localeCompare order of the names that occur in the model
NameOrder ==
    <<"a", "admin", "auth", "b", "bar", "BLUE", "class", "Color", "createdAt", "Date",
      "deprecated", "Droid", "Entity", "Filter", "foo", "GraphQLScalarType",
      "GraphQLSchema", "GREEN", "Human", "id", "limit", "Money", "name", "Node", "q",
      "reason", "RED", "role", "SearchResult", "size", "specifiedBy", "String", "url",
      "User">>

RECURSIVE RankIn(_, _, _)
RankIn(order, n, i) ==
    IF i > Len(order) THEN Len(order) + 1
    ELSE IF order[i] = n THEN i
    ELSE RankIn(order, n, i + 1)

NameRank(n) == RankIn(NameOrder, n, 1)

\* a.localeCompare(b) as -1, 0, 1
LocaleCompare(a, b) ==
    IF a = b THEN 0 ELSE IF NameRank(a) < NameRank(b) THEN -1 ELSE 1

\* Object.fromEntries(nodes.map(n => [n.name.value, n])): keys keep the
\* position of their first occurrence, the value is the last occurrence.
\* The record is kept as the sequence Object.values() would return.
RECURSIVE DictPutAll(_, _, _)
\* a table kept as a list that is pushed to, whether or not the key exists
DictSetPush(dict, node) == Append(dict, node)

DictSet(dict, node) ==
    LET k == IndexOfName(dict, node.name, 1)
    IN  IF k = 0 THEN Append(dict, node) ELSE [dict EXCEPT ![k] = node]

DictPutAll(dict, nodes, i) ==
    IF i > Len(nodes) THEN dict
    ELSE DictPutAll(DictSet(dict, nodes[i]), nodes, i + 1)

namedNodesDict(nodes) == DictPutAll(<<>>, nodes, 1)

DictGet(dict, n) ==
    LET k == IndexOfName(dict, n, 1) IN IF k = 0 THEN Undef ELSE dict[k]

\* Array.from(nodes).sort(by name): a stable insertion sort
RECURSIVE InsertSorted(_, _, _)
InsertSorted(sorted, node, i) ==
    IF i > Len(sorted) THEN Append(sorted, node)
    ELSE IF LocaleCompare(node.name, sorted[i].name) < 0
         THEN SubSeq(sorted, 1, i - 1) \o <<node>> \o SubSeq(sorted, i, Len(sorted))
         ELSE InsertSorted(sorted, node, i + 1)

RECURSIVE SortFrom(_, _, _)
SortFrom(sorted, nodes, i) ==
    IF i > Len(nodes) THEN sorted
    ELSE SortFrom(InsertSorted(sorted, nodes[i], 1), nodes, i + 1)

sortNamedNodes(nodes) == SortFrom(<<>>, nodes, 1)

\* a zip that stops at the end of its first argument
zipUpToFirst(a, b) ==
    [i \in 1..Len(a) |-> << a[i], IF i <= Len(b) THEN b[i] ELSE Undef >>]

\* just-zip-it: pairs up to the longer length, padding with undefined
zip(a, b) ==
    [i \in 1..Max(Len(a), Len(b)) |->
        << IF i <= Len(a) THEN a[i] ELSE Undef,
           IF i <= Len(b) THEN b[i] ELSE Undef >>]


(***************************************************************************)
(* Structural equality of AST nodes (merge.ts 120-266).  A comparison      *)
(* returns "true" or "false", or raises a TypeError when it reads a        *)
(* property of zip's undefined padding.                                    *)
(***************************************************************************)
EqTrue == "true"
EqFalse == "false"
EqTypeError == "TypeError"

Bool2Eq(b) == IF b THEN EqTrue ELSE EqFalse

\* x && y, where y is only evaluated when x is true
AndThen(x, y) == IF x = EqTrue THEN y ELSE x

IsUndef(x) == x = Undef

isIntValueNodeEqual(a, b) == Bool2Eq(a.value = b.value)

isFloatValueNodeEqual(a, b) == Bool2Eq(a.value = b.value)

isStringValueNodeEqual(a, b) == Bool2Eq(a.value = b.value)

isBooleanValueNodeEqual(a, b) == Bool2Eq(a.value = b.value)

isEnumValueNodeEqual(a, b) == Bool2Eq(a.value = b.value)

RECURSIVE isValueNodeEqual(_, _)
RECURSIVE EveryValuePair(_, _)
RECURSIVE EveryObjectFieldPair(_, _)

\* pairs.every(([a, b]) => isValueNodeEqual(a, b)), from index i
EveryValuePair(pairs, i) ==
    IF i > Len(pairs) THEN EqTrue
    ELSE AndThen(isValueNodeEqual(pairs[i][1], pairs[i][2]),
                 EveryValuePair(pairs, i + 1))

isListValueNodeEqual(a, b) == EveryValuePair(zip(a.values, b.values), 1)

\* pairs.every(([a, b]) => a.name.value === b.name.value &&
\*                         isValueNodeEqual(a.value, b.value)), from index i
EveryObjectFieldPair(pairs, i) ==
    IF i > Len(pairs) THEN EqTrue
    ELSE IF IsUndef(pairs[i][1]) \/ IsUndef(pairs[i][2]) THEN EqTypeError
    ELSE AndThen(
            AndThen(Bool2Eq(pairs[i][1].name = pairs[i][2].name),
                    isValueNodeEqual(pairs[i][1].value, pairs[i][2].value)),
            EveryObjectFieldPair(pairs, i + 1))

isObjectValueNodeEqual(a, b) ==
    EveryObjectFieldPair(zip(sortNamedNodes(a.fields), sortNamedNodes(b.fields)), 1)

isValueNodeEqual(a, b) ==
    IF a = b \/ (IsUndef(a) /\ IsUndef(b)) THEN EqTrue
    ELSE IF IsUndef(a) \/ IsUndef(b) \/ a.kind # b.kind THEN EqFalse
    ELSE CASE a.kind = "IntValue" -> isIntValueNodeEqual(a, b)
           [] a.kind = "FloatValue" -> isFloatValueNodeEqual(a, b)
           [] a.kind = "StringValue" -> isStringValueNodeEqual(a, b)
           [] a.kind = "BooleanValue" -> isBooleanValueNodeEqual(a, b)
           [] a.kind = "EnumValue" -> isEnumValueNodeEqual(a, b)
           [] a.kind = "ListValue" -> isListValueNodeEqual(a, b)
           [] a.kind = "ObjectValue" -> isObjectValueNodeEqual(a, b)
           [] a.kind \in {"NullValue", "Variable"} -> EqTrue

\* pairs.every(([a, b]) => a.name.value === b.name.value &&
\*                         isValueNodeEqual(a.value, b.value)) over arguments
RECURSIVE EveryArgumentPair(_, _)
EveryArgumentPair(pairs, i) ==
    IF i > Len(pairs) THEN EqTrue
    ELSE AndThen(
            AndThen(Bool2Eq(pairs[i][1].name = pairs[i][2].name),
                    isValueNodeEqual(pairs[i][1].value, pairs[i][2].value)),
            EveryArgumentPair(pairs, i + 1))

isArgumentNodesEqual(a, b) ==
    IF a = b THEN EqTrue
    ELSE IF Len(a) # Len(b) THEN EqFalse
    ELSE EveryArgumentPair(zip(sortNamedNodes(a), sortNamedNodes(b)), 1)

RECURSIVE isTypeNodeEqual(_, _)
isTypeNodeEqual(a, b) ==
    IF a.kind # b.kind THEN FALSE
    ELSE IF a.kind = "NamedType" THEN a.name = b.name
    ELSE isTypeNodeEqual(a.type[1], b.type[1])

RECURSIVE EveryDirectivePair(_, _)
EveryDirectivePair(pairs, i) ==
    IF i > Len(pairs) THEN EqTrue
    ELSE AndThen(
            AndThen(Bool2Eq(pairs[i][1].name = pairs[i][2].name),
                    isArgumentNodesEqual(pairs[i][1].arguments, pairs[i][2].arguments)),
            EveryDirectivePair(pairs, i + 1))

isDirectiveNodesEqual(a, b) ==
    IF a = b THEN EqTrue
    ELSE IF Len(a) # Len(b) THEN EqFalse
    ELSE EveryDirectivePair(zip(sortNamedNodes(a), sortNamedNodes(b)), 1)

RECURSIVE EveryInputValuePair(_, _)
EveryInputValuePair(pairs, i) ==
    IF i > Len(pairs) THEN EqTrue
    ELSE AndThen(
            AndThen(Bool2Eq(pairs[i][1].name = pairs[i][2].name),
            AndThen(Bool2Eq(isTypeNodeEqual(pairs[i][1].type, pairs[i][2].type)),
            AndThen(isValueNodeEqual(pairs[i][1].defaultValue, pairs[i][2].defaultValue),
                    isDirectiveNodesEqual(pairs[i][1].directives, pairs[i][2].directives)))),
            EveryInputValuePair(pairs, i + 1))

isInputValueDefinitionNodesEqual(a, b) ==
    IF a = b THEN EqTrue
    ELSE IF Len(a) # Len(b) THEN EqFalse
    ELSE EveryInputValuePair(zip(sortNamedNodes(a), sortNamedNodes(b)), 1)

(***************************************************************************)
(* State of one run of mergeDocumentNodes on a list of parsed documents    *)
(***************************************************************************)
VARIABLES
    isDeno,         \* globalThis.Deno is defined (merge.ts 56)
    documentNodes,  \* the argument: a sequence of documents
    docIndex,       \* position of the outer loop (merge.ts 530)
    defIndex,       \* position of the inner loop (merge.ts 531)
    definitions,    \* the name-keyed table, as Object.values() lists it
    warnings,       \* what console.warn has printed so far
    outcome,        \* "running", "returned" or "thrown"
    thrown,         \* the error thrown, NoError while there is none
    returned        \* the document returned, Undef until it is

mergeVars ==
    <<isDeno, documentNodes, docIndex, defIndex, definitions, warnings,
      outcome, thrown, returned>>

(***************************************************************************)
(* State of the generator: the registry of the newest GeneratorContext, the *)
(* inputs createGenerator was given and the files rendered so far           *)
(***************************************************************************)
VARIABLES
    pkgs,           \* the RequiredPackages instance: requires, symbols, aliases
    calls,          \* the addRequires calls made on it, with what each returned
    schemaTypes,    \* the custom scalar types of the schema, in type-map order
    scalarsInfo,    \* options.scalarsInfo: the serialize binding of each scalar
    extMode,        \* options.extMode
    outputs         \* what generateSchema / generateTypes / generate returned

generatorVars == <<pkgs, calls, schemaTypes, scalarsInfo, extMode, outputs>>

(***************************************************************************)
(* State of one run of the command (part_003 132-184)                      *)
(***************************************************************************)
VARIABLES
    argv,           \* the options and arguments of the command line
    pc,             \* where main is: the await it is suspended at, or "done"
    files,          \* per output file: "absent", "writing" or "written"
    rendered,       \* the outputs rendered successfully so far
    logged          \* the error main's catch has logged, NoError while none

commandVars == <<argv, pc, files, rendered, logged>>

(***************************************************************************)
(* State of one comparison of two value nodes (merge.ts 162-193)            *)
(***************************************************************************)
VARIABLES
    lhs,            \* the first argument of isValueNodeEqual
    rhs,            \* the second argument
    verdict,        \* "pending", then what isValueNodeEqual(lhs, rhs) did:
                    \* EqTrue, EqFalse or EqTypeError
    converse        \* the same for isValueNodeEqual(rhs, lhs)

equalityVars == <<lhs, rhs, verdict, converse>>

(***************************************************************************)
(* State of one parseModule(path) call: the recursion of findExports       *)
(* through the re-exports of the module (utils/typescript.ts 49-328)       *)
(***************************************************************************)
VARIABLES
    moduleFiles,    \* the source files: the statements of each module path
    frames,         \* the findExports calls in progress, innermost last: the
                    \* module, the statement its loop is at, its exports so far
    parsed,         \* the paths parseSource was called with, in order
    exportsOutcome, \* "running", "returned" or "thrown"
    exportsResult,  \* the table parseModule returned
    exportsError    \* the error thrown

exportsVars ==
    <<moduleFiles, frames, parsed, exportsOutcome, exportsResult, exportsError>>

(***************************************************************************)
(* State of one parse(path) of a scalars module (part_005 315-388)          *)
(***************************************************************************)
VARIABLES
    scalarExports,  \* the scalar bindings the module exports, by name
    scalarIndex,    \* position of the loop over the names (353-385)
    infos,          \* the ScalarInfo built for each name so far
    scalarLog,      \* the warnings printed so far
    scalarOutcome,  \* "running", "returned" or "thrown"
    scalarError     \* the error thrown

scalarVars ==
    <<scalarExports, scalarIndex, infos, scalarLog, scalarOutcome, scalarError>>

(***************************************************************************)
(* State of one parseTypeResolvers(typeName, glob) call (resolvers.ts       *)
(* 34-58)                                                                   *)
(***************************************************************************)
VARIABLES
    globPattern,    \* the glob argument
    resolverFiles,  \* the files globIterate yields, with what
                    \* parseResolverFile returns for each
    fileIndex,      \* position of the loop over the files (37)
    entryIndex,     \* position of the loop over the entries of a file (40)
    resolverResult, \* result: the binding registered under each name
    resolverLog,    \* the warnings printed so far
    resolverOutcome,\* "running", "returned" or "thrown"
    resolverError   \* the error thrown

resolverVars ==
    <<globPattern, resolverFiles, fileIndex, entryIndex, resolverResult,
      resolverLog, resolverOutcome, resolverError>>

(***************************************************************************)
(* State of one _renderFieldObject(type, f) call (generate.ts 256-344)      *)
(***************************************************************************)
VARIABLES
    resolversInfo,       \* options.resolversInfo: type name -> field -> binding
    fieldDirectivesInfo, \* options.fieldDirectivesInfo: directive -> binding
    fieldOwner,          \* the type whose field is rendered
    fieldNode,           \* the field f
    fieldObject          \* the properties of the object rendered for f

lookupVars ==
    <<resolversInfo, fieldDirectivesInfo, fieldOwner, fieldNode, fieldObject>>

(***************************************************************************)
(* State of one prepareInterfacesAndInputFieldDirectives call and of the    *)
(* rendering of the input-object types (generate.ts 1072-1163, 770-801)     *)
(***************************************************************************)
VARIABLES
    inputTypes,               \* the input-object types of the schema, by name
    inputDirectivesInfo,      \* options.inputDirectivesInfo, or undefined
    sortedTypes,              \* types: the types sorted by name (1091-1094)
    prepareStep,              \* where the call is
    typeCursor,               \* position of the loop over types (1100)
    typesWithObjectFields,    \* [typeName, fieldName, objectTypeName] triples
    newTypesWithObjectFields, \* the triples kept by the pass in progress
    entryCursor,              \* position of the loop of line 1130
    changes,                  \* the counter of the loop of line 1128
    inputFieldDirectives,     \* type name -> field name -> directive names
    transforms                \* the types a transform function is rendered for

prepareVars ==
    <<inputTypes, inputDirectivesInfo, sortedTypes, prepareStep, typeCursor,
      typesWithObjectFields, newTypesWithObjectFields, entryCursor, changes,
      inputFieldDirectives, transforms>>

(***************************************************************************)
(* The cast helpers of the interfaces and unions (generate.ts 612-671,     *)
(* 1016-1039)                                                              *)
(***************************************************************************)
VARIABLES
    castSchema,      \* the interfaces and unions of the schema, by name
    castStep,        \* where the rendering and the use of the helpers are
    containerCursor, \* position of the rendering in castSchema
    helpers,         \* the cast helpers rendered so far
    castValue,       \* the value the helpers are applied to
    castBy,          \* the (member, container) pair of the last helper applied
    resolvedBy,      \* the interface or union that resolved the type last
    resolvedAs       \* the type name it resolved to

castVars ==
    <<castSchema, castStep, containerCursor, helpers, castValue, castBy,
      resolvedBy, resolvedAs>>

(***************************************************************************)
(* The references to other modules the renderer emits (generate.ts 274,    *)
(* 287, 341, 397-439, 542-544)                                             *)
(***************************************************************************)
VARIABLES
    scalarTypeTypeCache,  \* _scalarTypeTypeCache: scalar name -> value type
    emittedRefs           \* the identifiers emitted so far, with their requests

refVars == <<scalarTypeTypeCache, emittedRefs>>

\* the parts of the rendering that are analysed on their own
laterVars == <<prepareVars, castVars, refVars>>

\* the state of the binding analysis and of the reference resolution
analysisVars ==
    <<equalityVars, exportsVars, scalarVars, resolverVars, lookupVars, laterVars>>

earlierVars ==
    <<mergeVars, generatorVars, commandVars, equalityVars, exportsVars, scalarVars,
      resolverVars, lookupVars>>

exceptPrepare == <<earlierVars, castVars, refVars>>

exceptCast == <<earlierVars, prepareVars, refVars>>

\* all but the registry and the references emitted
exceptRefs ==
    <<mergeVars, commandVars, equalityVars, exportsVars, scalarVars, resolverVars,
      lookupVars, prepareVars, castVars>>

\* all but the variables of one part
exceptEquality ==
    <<mergeVars, generatorVars, commandVars, exportsVars, scalarVars, resolverVars,
      lookupVars, laterVars>>
exceptExports ==
    <<mergeVars, generatorVars, commandVars, equalityVars, scalarVars, resolverVars,
      lookupVars, laterVars>>
exceptScalars ==
    <<mergeVars, generatorVars, commandVars, equalityVars, exportsVars, resolverVars,
      lookupVars, laterVars>>
exceptResolvers ==
    <<mergeVars, generatorVars, commandVars, equalityVars, exportsVars, scalarVars,
      lookupVars, laterVars>>
exceptLookup ==
    <<mergeVars, generatorVars, commandVars, equalityVars, exportsVars, scalarVars,
      resolverVars, laterVars>>

vars == <<mergeVars, generatorVars, commandVars, analysisVars>>

\* the parts of the state a specification does not use stay as they start
MergeIdle ==
    /\ isDeno = FALSE
    /\ documentNodes = <<>>
    /\ docIndex = 1
    /\ defIndex = 1
    /\ definitions = <<>>
    /\ warnings = <<>>
    /\ outcome = "idle"
    /\ thrown = [type |-> "none"]
    /\ returned = [kind |-> "undefined"]

GeneratorIdle ==
    /\ pkgs = [requires |-> <<>>, symbols |-> <<>>, aliases |-> <<>>]
    /\ calls = <<>>
    /\ schemaTypes = <<>>
    /\ scalarsInfo = <<>>
    /\ extMode = "omit"
    /\ outputs = <<>>

CommandIdle ==
    /\ argv = <<>>
    /\ pc = "idle"
    /\ files = <<>>
    /\ rendered = {}
    /\ logged = [type |-> "none"]

EqualityIdle ==
    /\ lhs = [kind |-> "undefined"]
    /\ rhs = [kind |-> "undefined"]
    /\ verdict = "idle"
    /\ converse = "idle"

ExportsIdle ==
    /\ moduleFiles = <<>>
    /\ frames = <<>>
    /\ parsed = <<>>
    /\ exportsOutcome = "idle"
    /\ exportsResult = <<>>
    /\ exportsError = [type |-> "none"]

ScalarsIdle ==
    /\ scalarExports = <<>>
    /\ scalarIndex = 1
    /\ infos = <<>>
    /\ scalarLog = <<>>
    /\ scalarOutcome = "idle"
    /\ scalarError = [type |-> "none"]

ResolversIdle ==
    /\ globPattern = ""
    /\ resolverFiles = <<>>
    /\ fileIndex = 1
    /\ entryIndex = 1
    /\ resolverResult = <<>>
    /\ resolverLog = <<>>
    /\ resolverOutcome = "idle"
    /\ resolverError = [type |-> "none"]

LookupIdle ==
    /\ resolversInfo = <<>>
    /\ fieldDirectivesInfo = <<>>
    /\ fieldOwner = [kind |-> "undefined"]
    /\ fieldNode = [kind |-> "undefined"]
    /\ fieldObject = <<>>

PrepareIdle ==
    /\ inputTypes = <<>>
    /\ inputDirectivesInfo = [kind |-> "undefined"]
    /\ sortedTypes = <<>>
    /\ prepareStep = "idle"
    /\ typeCursor = 1
    /\ typesWithObjectFields = <<>>
    /\ newTypesWithObjectFields = <<>>
    /\ entryCursor = 1
    /\ changes = 0
    /\ inputFieldDirectives = <<>>
    /\ transforms = {}

CastIdle ==
    /\ castSchema = <<>>
    /\ castStep = "idle"
    /\ containerCursor = 1
    /\ helpers = <<>>
    /\ castValue = [kind |-> "undefined"]
    /\ castBy = <<>>
    /\ resolvedBy = ""
    /\ resolvedAs = [kind |-> "undefined"]

RefsIdle ==
    /\ scalarTypeTypeCache = <<>>
    /\ emittedRefs = <<>>

LaterIdle == PrepareIdle /\ CastIdle /\ RefsIdle

AnalysisIdle ==
    EqualityIdle /\ ExportsIdle /\ ScalarsIdle /\ ResolversIdle /\ LookupIdle /\ LaterIdle

EarlierIdle ==
    /\ MergeIdle
    /\ GeneratorIdle
    /\ CommandIdle
    /\ EqualityIdle
    /\ ExportsIdle
    /\ ScalarsIdle
    /\ ResolversIdle
    /\ LookupIdle

(***************************************************************************)
(* Errors and results                                                      *)
(***************************************************************************)
NoError == [type |-> "none"]

\* new GraphQLError(`${text}: ${subject}`)
GraphQLError(text, subject) ==
    [type |-> "GraphQLError", text |-> text, subject |-> subject, callSite |-> <<>>]

\* the TypeError of reading a property of undefined
TypeError == [type |-> "TypeError", text |-> "Cannot read properties of undefined",
              subject |-> <<>>, callSite |-> <<>>]

\* new Error(`unexpected definition kind: ${kind}`)
PlainError(text, subject) ==
    [type |-> "Error", text |-> text, subject |-> subject, callSite |-> <<>>]

\* under Deno and with a location, the error's stack gets one call site at
\* that location; otherwise the error is returned as it is
setTraceToSchema(err, name, loc) ==
    IF isDeno /\ loc # NoLoc
    THEN [err EXCEPT !.callSite = <<[functionName |-> name, loc |-> loc]>>]
    ELSE err

Ok(v, w) == [error |-> NoError, value |-> v, warnings |-> w]

Throw(e, w) == [error |-> e, value |-> <<>>, warnings |-> w]

IsOk(r) == r.error = NoError

(***************************************************************************)
(* Merging of the parts of a definition (merge.ts 268-414).  Each loop is   *)
(* written as a recursion over the index; where the code tests a value it   *)
(* has just computed, the value is handed to a continuation operator.       *)
(***************************************************************************)
DirectiveConflict(name, d) ==
    setTraceToSchema(
        GraphQLError("Cannot merge duplicate directive with different arguments",
                     name \o <<"@", d.name>>),
        name \o <<"@", d.name>>, d.loc)

\* d.name.value in directives && !isArgumentNodesEqual(directives[..].arguments, ..)
\* is false exactly when this is "true"
DirectiveAgrees(directives, d) ==
    IF HasName(directives, d.name)
    THEN isArgumentNodesEqual(DictGet(directives, d.name).arguments, d.arguments)
    ELSE EqTrue

RECURSIVE MergeDirectivesFrom(_, _, _, _)
RECURSIVE MergeDirectiveStep(_, _, _, _, _)
MergeDirectiveStep(name, directives, b, i, eq) ==
    IF eq = EqTypeError THEN Throw(TypeError, <<>>)
    ELSE IF eq = EqFalse THEN Throw(DirectiveConflict(name, b[i]), <<>>)
    ELSE MergeDirectivesFrom(name, DictSet(directives, b[i]), b, i + 1)

MergeDirectivesFrom(name, directives, b, i) ==
    IF i > Len(b) THEN Ok(directives, <<>>)
    ELSE MergeDirectiveStep(name, directives, b, i, DirectiveAgrees(directives, b[i]))

mergeDirectiveNodes(name, a, b) == MergeDirectivesFrom(name, namedNodesDict(a), b, 1)

\* a warning that cites the later declaration only
DuplicateWarningOneLocation(name, f, prev) ==
    [text |-> "there is more than one declaration for", subject |-> <<name, f.name>>,
     locs |-> <<f.loc>>]

DuplicateWarning(name, f, prev) ==
    [text |-> "there is more than one declaration for", subject |-> <<name, f.name>>,
     locs |-> <<f.loc, prev.loc>>]

ArgumentsConflict(name, f) ==
    setTraceToSchema(
        GraphQLError("Cannot merge duplicate field with different arguments",
                     <<name, f.name>>),
        <<name, f.name>>, f.loc)

TypeConflict(name, f) ==
    setTraceToSchema(
        GraphQLError("Cannot merge duplicate field with different type",
                     <<name, f.name>>),
        <<name, f.name>>, f.type.loc)

RECURSIVE MergeFieldsFrom(_, _, _, _, _)
RECURSIVE MergeFieldDirectives(_, _, _, _, _, _, _)
RECURSIVE MergeFieldStep(_, _, _, _, _, _, _)
\* merge.ts 304-311: the previous field with the merged directives
MergeFieldDirectives(name, fields, b, i, warned, prev, ds) ==
    IF ~IsOk(ds) THEN Throw(ds.error, warned)
    ELSE MergeFieldsFrom(name, DictSet(fields, [prev EXCEPT !.directives = ds.value]),
                         b, i + 1, warned)

\* merge.ts 278-302: the two conflict tests, then the warning
MergeFieldStep(name, fields, b, i, warned, prev, argsEq) ==
    IF argsEq = EqTypeError THEN Throw(TypeError, warned)
    ELSE IF argsEq = EqFalse THEN Throw(ArgumentsConflict(name, b[i]), warned)
    ELSE IF ~isTypeNodeEqual(prev.type, b[i].type) THEN Throw(TypeConflict(name, b[i]), warned)
    ELSE MergeFieldDirectives(name, fields, b, i,
            Append(warned, DuplicateWarning(name, b[i], prev)), prev,
            mergeDirectiveNodes(<<name, b[i].name>>, prev.directives, b[i].directives))

MergeFieldsFrom(name, fields, b, i, warned) ==
    IF i > Len(b) THEN Ok(fields, warned)
    ELSE IF ~HasName(fields, b[i].name)
    THEN MergeFieldsFrom(name, DictSet(fields, b[i]), b, i + 1, warned)
    ELSE MergeFieldStep(name, fields, b, i, warned, DictGet(fields, b[i].name),
            isInputValueDefinitionNodesEqual(DictGet(fields, b[i].name).arguments,
                                             b[i].arguments))

mergeFieldDefinitionNodes(name, a, b) ==
    MergeFieldsFrom(name, namedNodesDict(a), b, 1, <<>>)

RECURSIVE MergeInputValuesFrom(_, _, _, _, _)
RECURSIVE MergeInputValueDirectives(_, _, _, _, _, _, _)
RECURSIVE MergeInputValueStep(_, _, _, _, _, _, _)
\* merge.ts 357-364
MergeInputValueDirectives(name, fields, b, i, warned, prev, ds) ==
    IF ~IsOk(ds) THEN Throw(ds.error, warned)
    ELSE MergeInputValuesFrom(name, DictSet(fields, [prev EXCEPT !.directives = ds.value]),
                              b, i + 1, warned)

\* merge.ts 331-355
MergeInputValueStep(name, fields, b, i, warned, prev, valEq) ==
    IF valEq = EqTypeError THEN Throw(TypeError, warned)
    ELSE IF valEq = EqFalse THEN Throw(ArgumentsConflict(name, b[i]), warned)
    ELSE IF ~isTypeNodeEqual(prev.type, b[i].type) THEN Throw(TypeConflict(name, b[i]), warned)
    ELSE MergeInputValueDirectives(name, fields, b, i,
            Append(warned, DuplicateWarning(name, b[i], prev)), prev,
            mergeDirectiveNodes(<<name, b[i].name>>, prev.directives, b[i].directives))

MergeInputValuesFrom(name, fields, b, i, warned) ==
    IF i > Len(b) THEN Ok(fields, warned)
    ELSE IF ~HasName(fields, b[i].name)
    THEN MergeInputValuesFrom(name, DictSet(fields, b[i]), b, i + 1, warned)
    ELSE MergeInputValueStep(name, fields, b, i, warned, DictGet(fields, b[i].name),
            isValueNodeEqual(DictGet(fields, b[i].name).defaultValue, b[i].defaultValue))

mergeInputValueDefinitionNodes(name, a, b) ==
    MergeInputValuesFrom(name, namedNodesDict(a), b, 1, <<>>)

\* later nodes replace earlier ones of the same name, in the earlier position
mergeNamedNodesAppending(a, b) == a \o b

mergeNamedNodesKeepingFirst(a, b) == a

mergeNamedNodes(a, b) == DictPutAll(namedNodesDict(a), b, 1)

(***************************************************************************)
(* Merging of two definitions of the same kind (merge.ts 416-524)          *)
(***************************************************************************)
\* a.description || b.description
DescriptionOr(a, b) == IF ~IsUndef(a.description) THEN a.description ELSE b.description

\* the object literal the merge functions return; ds and ms are the results
\* of merging the directives and the members (fields, enum values)
MergedDefinition(kind, a, desc, loc, is, ds, fs, vs, ts, warned) ==
    Ok([kind |-> kind, name |-> a.name, description |-> desc, loc |-> loc,
        interfaces |-> is, directives |-> ds, fields |-> fs, values |-> vs,
        types |-> ts], warned)

ScalarNamesDiffer(a, b) ==
    setTraceToSchema(
        GraphQLError("Cannot merge scalar types with different names", <<a.name, b.name>>),
        <<a.name>>, a.loc)

ScalarMerged(a, ds) ==
    IF ~IsOk(ds) THEN ds
    ELSE MergedDefinition("ScalarTypeDefinition", a, Undef, NoLoc,
                          <<>>, ds.value, <<>>, <<>>, <<>>, <<>>)

mergeScalarTypeDefinitionNodes(a, b) ==
    IF a.name # b.name THEN Throw(ScalarNamesDiffer(a, b), <<>>)
    ELSE ScalarMerged(a, mergeDirectiveNodes(<<a.name>>, a.directives, b.directives))

FieldedMerged(kind, a, b, ds, fs) ==
    IF ~IsOk(fs) THEN fs
    ELSE MergedDefinition(kind, a, DescriptionOr(a, b), a.loc,
                          mergeNamedNodes(a.interfaces, b.interfaces),
                          ds.value, fs.value, <<>>, <<>>, fs.warnings)

FieldedDirectivesMerged(kind, a, b, ds) ==
    IF ~IsOk(ds) THEN ds
    ELSE FieldedMerged(kind, a, b, ds,
                       mergeFieldDefinitionNodes(a.name, a.fields, b.fields))

\* the body object and interface definitions share (merge.ts 441-449, 456-464)
MergeFieldedDefinition(kind, a, b) ==
    FieldedDirectivesMerged(kind, a, b,
        mergeDirectiveNodes(<<a.name>>, a.directives, b.directives))

mergeObjectTypeDefinitionNodes(a, b) ==
    MergeFieldedDefinition("ObjectTypeDefinition", a, b)

mergeInterfaceTypeDefinitionNodes(a, b) ==
    MergeFieldedDefinition("InterfaceTypeDefinition", a, b)

UnionMerged(a, b, ds) ==
    IF ~IsOk(ds) THEN ds
    ELSE MergedDefinition("UnionTypeDefinition", a, DescriptionOr(a, b), a.loc,
                          <<>>, ds.value, <<>>, <<>>,
                          mergeNamedNodes(a.types, b.types), <<>>)

mergeUnionTypeDefinitionNodes(a, b) ==
    UnionMerged(a, b, mergeDirectiveNodes(<<a.name>>, a.directives, b.directives))

EnumValueConflict(v) ==
    setTraceToSchema(
        GraphQLError("Cannot merge duplicate enum value", <<v.name, v.name>>),
        <<v.name, v.name>>, v.loc)

\* a loop over b.values that keeps one of two values of the same name
MergeEnumValuesDeduplicating(values, b, i) == Ok(DictPutAll(values, b, i), <<>>)

\* the loop over b.values: the first value of b already present throws
RECURSIVE MergeEnumValuesFrom(_, _, _)
MergeEnumValuesFrom(values, b, i) ==
    IF i > Len(b) THEN Ok(values, <<>>)
    ELSE IF HasName(values, b[i].name) THEN Throw(EnumValueConflict(b[i]), <<>>)
    ELSE MergeEnumValuesFrom(DictSet(values, b[i]), b, i + 1)

EnumMerged(a, b, vs, ds) ==
    IF ~IsOk(ds) THEN ds
    ELSE MergedDefinition("EnumTypeDefinition", a, DescriptionOr(a, b), a.loc,
                          <<>>, ds.value, <<>>, vs.value, <<>>, <<>>)

EnumValuesMerged(a, b, vs) ==
    IF ~IsOk(vs) THEN vs
    ELSE EnumMerged(a, b, vs, mergeDirectiveNodes(<<a.name>>, a.directives, b.directives))

mergeEnumTypeDefinitionNodes(a, b) ==
    EnumValuesMerged(a, b, MergeEnumValuesFrom(namedNodesDict(a.values), b.values, 1))

InputObjectMerged(a, b, ds, fs) ==
    IF ~IsOk(fs) THEN fs
    ELSE MergedDefinition("InputObjectTypeDefinition", a, DescriptionOr(a, b), a.loc,
                          <<>>, ds.value, fs.value, <<>>, <<>>, fs.warnings)

InputObjectDirectivesMerged(a, b, ds) ==
    IF ~IsOk(ds) THEN ds
    ELSE InputObjectMerged(a, b, ds,
                           mergeInputValueDefinitionNodes(a.name, a.fields, b.fields))

mergeInputObjectTypeDefinitionNodes(a, b) ==
    InputObjectDirectivesMerged(a, b,
        mergeDirectiveNodes(<<a.name>>, a.directives, b.directives))

(***************************************************************************)
(* mergeDocumentNodes (merge.ts 526-641)                                   *)
(***************************************************************************)
UnmergeableKinds ==
    {"SchemaDefinition", "SchemaExtension", "OperationDefinition",
     "FragmentDefinition", "ScalarTypeExtension", "ObjectTypeExtension",
     "InterfaceTypeExtension", "UnionTypeExtension", "EnumTypeExtension",
     "InputObjectTypeExtension"}

DescriptionWarning(prev, def) ==
    [text |-> "different descriptions for type",
     subject |-> <<prev.name, prev.description.value, def.description.value>>,
     locs |-> <<def.description.loc, prev.description.loc>>]

\* the warning of merge.ts 572-586, if it is printed
DescriptionWarnings(prev, def) ==
    IF /\ ~IsUndef(prev.description)
       /\ ~IsUndef(def.description)
       /\ prev.description.value # def.description.value
    THEN <<DescriptionWarning(prev, def)>>
    ELSE <<>>

\* the switch of merge.ts 588-632
MergeSameKind(prev, def) ==
    CASE def.kind = "ScalarTypeDefinition" -> mergeScalarTypeDefinitionNodes(prev, def)
      [] def.kind = "ObjectTypeDefinition" -> mergeObjectTypeDefinitionNodes(prev, def)
      [] def.kind = "InterfaceTypeDefinition" -> mergeInterfaceTypeDefinitionNodes(prev, def)
      [] def.kind = "UnionTypeDefinition" -> mergeUnionTypeDefinitionNodes(prev, def)
      [] def.kind = "EnumTypeDefinition" -> mergeEnumTypeDefinitionNodes(prev, def)
      [] def.kind = "InputObjectTypeDefinition" -> mergeInputObjectTypeDefinitionNodes(prev, def)

KindConflict(prev, def) ==
    setTraceToSchema(
        GraphQLError("Cannot merge different definition kinds", <<prev.kind, def.kind>>),
        <<def.name>>, def.loc)

DuplicateDirectiveDefinition(def) ==
    setTraceToSchema(
        GraphQLError("Cannot merge duplicate directive definitions", <<def.name>>),
        <<def.name>>, def.loc)

\* the assignment definitions[name] = merged, or the error passed on
StoreMerged(defs, dw, m) ==
    IF ~IsOk(m) THEN Throw(m.error, dw \o m.warnings)
    ELSE Ok(DictSet(defs, m.value), dw \o m.warnings)

\* merge.ts 552-632, for a name that is already in the table
MergeWithPrevious(defs, prev, def) ==
    IF prev.kind # def.kind THEN Throw(KindConflict(prev, def), <<>>)
    ELSE IF prev.kind = "DirectiveDefinition"
    THEN Throw(DuplicateDirectiveDefinition(def), <<>>)
    ELSE StoreMerged(defs, DescriptionWarnings(prev, def), MergeSameKind(prev, def))

\* one iteration of the inner loop: the table after `definition`, the warnings
\* it printed, or the error it threw
MergeDefinition(defs, definition) ==
    IF definition.kind \in UnmergeableKinds
    THEN Throw(PlainError("unexpected definition kind", <<definition.kind>>), <<>>)
    ELSE IF ~HasName(defs, definition.name) THEN Ok(DictSet(defs, definition), <<>>)
    ELSE MergeWithPrevious(defs, DictGet(defs, definition.name), definition)

\* the value mergeDocumentNodes returns for a final table
DocumentOf(docs, defs) ==
    [kind |-> "Document", loc |-> docs[1].loc, definitions |-> defs]

\* all definitions of the documents, in the order the two loops visit them
RECURSIVE Flatten(_, _)
Flatten(docs, i) ==
    IF i > Len(docs) THEN <<>>
    ELSE docs[i].definitions \o Flatten(docs, i + 1)

RECURSIVE MergeAll(_, _, _, _)
RECURSIVE MergeAllStep(_, _, _, _)
MergeAllStep(r, todo, i, warned) ==
    IF ~IsOk(r) THEN Throw(r.error, warned \o r.warnings)
    ELSE MergeAll(r.value, todo, i + 1, warned \o r.warnings)

MergeAll(defs, todo, i, warned) ==
    IF i > Len(todo) THEN Ok(defs, warned)
    ELSE MergeAllStep(MergeDefinition(defs, todo[i]), todo, i, warned)

DocumentResult(docs, r) ==
    IF IsOk(r) THEN Ok(DocumentOf(docs, r.value), r.warnings) ELSE r

\* mergeDocumentNodes as a function of its argument: the document returned
\* (in value) and the warnings printed, or the error thrown
mergeDocumentNodes(docs) ==
    DocumentResult(docs, MergeAll(<<>>, Flatten(docs, 1), 1, <<>>))

(***************************************************************************)
(* The AST nodes graphql's parse() builds, as far as the merger reads them *)
(***************************************************************************)
\* Location: the source file, the definition in it and the place inside it
Loc(f, j, at) == [file |-> f, def |-> j, at |-> at]

NamedTypeNode(n, l) == [kind |-> "NamedType", name |-> n, type |-> <<>>, loc |-> l]

NonNullTypeNode(t, l) == [kind |-> "NonNullType", name |-> "", type |-> <<t>>, loc |-> l]

ScalarValueNode(k, v) == [kind |-> k, value |-> v, values |-> <<>>, fields |-> <<>>]

ArgumentNode(n, v) == [name |-> n, value |-> v]

DirectiveNode(n, args, l) == [name |-> n, arguments |-> args, loc |-> l]

StringValueNode(v, l) == [value |-> v, loc |-> l]

InputValueDefinitionNode(n, t, dv, ds, l) ==
    [name |-> n, type |-> t, defaultValue |-> dv, directives |-> ds, loc |-> l]

FieldDefinitionNode(n, args, t, ds, l) ==
    [name |-> n, arguments |-> args, type |-> t, directives |-> ds, loc |-> l]

EnumValueDefinitionNode(n, l) == [name |-> n, loc |-> l]

DefinitionNode(k, n, desc, l, is, ds, fs, vs, ts) ==
    [kind |-> k, name |-> n, description |-> desc, loc |-> l, interfaces |-> is,
     directives |-> ds, fields |-> fs, values |-> vs, types |-> ts]

DocumentNode(f, defs) == [kind |-> "Document", loc |-> Loc(f, 0, ""), definitions |-> defs]

(***************************************************************************)
(* The definitions the documents of the model are made of.  DefinitionAt    *)
(* gives the node parse() builds for each of them when it stands as         *)
(* definition j of file f.                                                  *)
(***************************************************************************)
AuthDirective(role, l) ==
    DirectiveNode("auth", <<ArgumentNode("role", ScalarValueNode("StringValue", role))>>, l)

IdField(t, f, j) ==
    FieldDefinitionNode("id", <<>>,
        NonNullTypeNode(NamedTypeNode(t, Loc(f, j, "id:type")), Loc(f, j, "id:type")),
        <<>>, Loc(f, j, "id"))

NameField(ds, f, j) ==
    FieldDefinitionNode("name", <<>>, NamedTypeNode("String", Loc(f, j, "name:type")),
        ds, Loc(f, j, "name"))

LimitField(v, ds, f, j) ==
    InputValueDefinitionNode("limit", NamedTypeNode("Int", Loc(f, j, "limit:type")),
        ScalarValueNode("IntValue", v), ds, Loc(f, j, "limit"))

ObjectDefinition(desc, is, ds, fs, f, j) ==
    DefinitionNode("ObjectTypeDefinition", "User", desc, Loc(f, j, "User"),
                   is, ds, fs, <<>>, <<>>)

Described(text, f, j) == StringValueNode(text, Loc(f, j, "description"))

Implements(n, f, j) == <<NamedTypeNode(n, Loc(f, j, n))>>

DefinitionIds ==
    {"UserA", "UserB", "UserC", "UserD", "UserE", "UserF", "UserScalar", "UserExt",
     "NodeA", "NodeB", "ColorA", "ColorB", "ColorC", "ColorD", "DateA", "DateB",
     "ResultA", "ResultB", "FilterA", "FilterB", "FilterC", "AuthDef"}

DefinitionAt(id, f, j) ==
    CASE id = "UserA" ->
           \* """user one""" type User implements Node { id: ID! }
           ObjectDefinition(Described("user one", f, j), Implements("Node", f, j), <<>>,
                            <<IdField("ID", f, j)>>, f, j)
      [] id = "UserB" ->
           \* """user two""" type User implements Entity { id: ID! name: String }
           ObjectDefinition(Described("user two", f, j), Implements("Entity", f, j), <<>>,
                            <<IdField("ID", f, j), NameField(<<>>, f, j)>>, f, j)
      [] id = "UserC" ->
           \* type User { id: String! }
           ObjectDefinition(Undef, <<>>, <<>>, <<IdField("String", f, j)>>, f, j)
      [] id = "UserD" ->
           \* type User { id(size: Int = 1): ID! }
           ObjectDefinition(Undef, <<>>, <<>>,
               <<[IdField("ID", f, j) EXCEPT !.arguments =
                   <<InputValueDefinitionNode("size",
                        NamedTypeNode("Int", Loc(f, j, "size:type")),
                        ScalarValueNode("IntValue", "1"), <<>>, Loc(f, j, "size"))>>]>>,
               f, j)
      [] id = "UserE" ->
           \* type User @auth(role: "admin") { name: String @auth(role: "admin") }
           ObjectDefinition(Undef, <<>>, <<AuthDirective("admin", Loc(f, j, "@auth"))>>,
               <<NameField(<<AuthDirective("admin", Loc(f, j, "name@auth"))>>, f, j)>>, f, j)
      [] id = "UserF" ->
           \* type User { name: String @auth(role: "user") }
           ObjectDefinition(Undef, <<>>, <<>>,
               <<NameField(<<AuthDirective("user", Loc(f, j, "name@auth"))>>, f, j)>>, f, j)
      [] id = "UserScalar" ->
           \* scalar User
           DefinitionNode("ScalarTypeDefinition", "User", Undef, Loc(f, j, "User"),
                          <<>>, <<>>, <<>>, <<>>, <<>>)
      [] id = "UserExt" ->
           \* extend type User { name: String }
           DefinitionNode("ObjectTypeExtension", "User", Undef, Loc(f, j, "User"),
                          <<>>, <<>>, <<NameField(<<>>, f, j)>>, <<>>, <<>>)
      [] id = "NodeA" ->
           \* interface Node { id: ID! }
           DefinitionNode("InterfaceTypeDefinition", "Node", Undef, Loc(f, j, "Node"),
                          <<>>, <<>>, <<IdField("ID", f, j)>>, <<>>, <<>>)
      [] id = "NodeB" ->
           \* """a node""" interface Node @auth(role: "admin") { name: String id: ID! }
           DefinitionNode("InterfaceTypeDefinition", "Node", Described("a node", f, j),
                          Loc(f, j, "Node"), <<>>,
                          <<AuthDirective("admin", Loc(f, j, "@auth"))>>,
                          <<NameField(<<>>, f, j), IdField("ID", f, j)>>, <<>>, <<>>)
      [] id = "ColorA" ->
           \* """colors""" enum Color { RED GREEN }
           DefinitionNode("EnumTypeDefinition", "Color", Described("colors", f, j),
                          Loc(f, j, "Color"), <<>>, <<>>, <<>>,
                          <<EnumValueDefinitionNode("RED", Loc(f, j, "RED")),
                            EnumValueDefinitionNode("GREEN", Loc(f, j, "GREEN"))>>, <<>>)
      [] id = "ColorB" ->
           \* enum Color { GREEN BLUE }
           DefinitionNode("EnumTypeDefinition", "Color", Undef,
                          Loc(f, j, "Color"), <<>>, <<>>, <<>>,
                          <<EnumValueDefinitionNode("GREEN", Loc(f, j, "GREEN")),
                            EnumValueDefinitionNode("BLUE", Loc(f, j, "BLUE"))>>, <<>>)
      [] id = "ColorC" ->
           \* """more colors""" enum Color @auth(role: "user") { BLUE }
           DefinitionNode("EnumTypeDefinition", "Color", Described("more colors", f, j),
                          Loc(f, j, "Color"), <<>>,
                          <<AuthDirective("user", Loc(f, j, "@auth"))>>, <<>>,
                          <<EnumValueDefinitionNode("BLUE", Loc(f, j, "BLUE"))>>, <<>>)
      [] id = "ColorD" ->
           \* enum Color @auth(role: "admin")
           DefinitionNode("EnumTypeDefinition", "Color", Undef,
                          Loc(f, j, "Color"), <<>>,
                          <<AuthDirective("admin", Loc(f, j, "@auth"))>>, <<>>, <<>>, <<>>)
      [] id = "DateA" ->
           \* """a date""" scalar Date
           DefinitionNode("ScalarTypeDefinition", "Date", Described("a date", f, j),
                          Loc(f, j, "Date"), <<>>, <<>>, <<>>, <<>>, <<>>)
      [] id = "DateB" ->
           \* scalar Date @specifiedBy(url: "u")
           DefinitionNode("ScalarTypeDefinition", "Date", Undef, Loc(f, j, "Date"), <<>>,
                          <<DirectiveNode("specifiedBy",
                              <<ArgumentNode("url", ScalarValueNode("StringValue", "u"))>>,
                              Loc(f, j, "@specifiedBy"))>>,
                          <<>>, <<>>, <<>>)
      [] id = "ResultA" ->
           \* union SearchResult = User | Droid
           DefinitionNode("UnionTypeDefinition", "SearchResult", Undef,
                          Loc(f, j, "SearchResult"), <<>>, <<>>, <<>>, <<>>,
                          <<NamedTypeNode("User", Loc(f, j, "User")),
                            NamedTypeNode("Droid", Loc(f, j, "Droid"))>>)
      [] id = "ResultB" ->
           \* """results""" union SearchResult = Droid | Human
           DefinitionNode("UnionTypeDefinition", "SearchResult", Described("results", f, j),
                          Loc(f, j, "SearchResult"), <<>>, <<>>, <<>>, <<>>,
                          <<NamedTypeNode("Droid", Loc(f, j, "Droid")),
                            NamedTypeNode("Human", Loc(f, j, "Human"))>>)
      [] id = "FilterA" ->
           \* input Filter { limit: Int = 10 }
           DefinitionNode("InputObjectTypeDefinition", "Filter", Undef,
                          Loc(f, j, "Filter"), <<>>, <<>>,
                          <<LimitField("10", <<>>, f, j)>>, <<>>, <<>>)
      [] id = "FilterB" ->
           \* """filter""" input Filter { q: String limit: Int = 10 @auth(role: "admin") }
           DefinitionNode("InputObjectTypeDefinition", "Filter", Described("filter", f, j),
                          Loc(f, j, "Filter"), <<>>, <<>>,
                          <<InputValueDefinitionNode("q",
                                NamedTypeNode("String", Loc(f, j, "q:type")),
                                Undef, <<>>, Loc(f, j, "q")),
                            LimitField("10", <<AuthDirective("admin", Loc(f, j, "limit@auth"))>>,
                                       f, j)>>,
                          <<>>, <<>>)
      [] id = "FilterC" ->
           \* input Filter { limit: Int = 20 }
           DefinitionNode("InputObjectTypeDefinition", "Filter", Undef,
                          Loc(f, j, "Filter"), <<>>, <<>>,
                          <<LimitField("20", <<>>, f, j)>>, <<>>, <<>>)
      [] id = "AuthDef" ->
           \* directive @auth(role: String) on FIELD_DEFINITION | ENUM | OBJECT
           DefinitionNode("DirectiveDefinition", "auth", Undef, Loc(f, j, "@auth"),
                          <<>>, <<>>, <<>>, <<>>, <<>>)

(***************************************************************************)
(* The run of mergeDocumentNodes as a state machine: one step per           *)
(* iteration of the inner loop, then the return.                            *)
(***************************************************************************)
\* the documents passed to one call (schema.ts' parse passes at least one)
MaxDocs == 2
\* the definitions all documents of one call hold together
MaxDefs == 2

Nondecreasing(fn, k) == \A i \in 1..k : \A i2 \in 1..k : i <= i2 => fn[i] <= fn[i2]

\* the definitions of document d when the definitions ids are dealt to the
\* documents by docOf
DefinitionsOfDoc(ids, docOf, d) ==
    LET idx == {i \in 1..Len(ids) : docOf[i] = d}
        before == Cardinality({i \in 1..Len(ids) : docOf[i] < d})
    IN  [k \in 1..Cardinality(idx) |-> DefinitionAt(ids[before + k], d, before + k)]

BuildDocuments(ids, docOf, nd) ==
    [d \in 1..nd |-> DocumentNode(d, DefinitionsOfDoc(ids, docOf, d))]

\* the position of the two loops at or after (d, e): the next definition to
\* visit, or <<Len(docs) + 1, 1>> when the loops are over
RECURSIVE NextPosition(_, _, _)
NextPosition(docs, d, e) ==
    IF d > Len(docs) THEN <<Len(docs) + 1, 1>>
    ELSE IF e <= Len(docs[d].definitions) THEN <<d, e>>
    ELSE NextPosition(docs, d + 1, 1)

LoopsOver == docIndex > Len(documentNodes)

StartAt(first) ==
    /\ docIndex = first[1]
    /\ defIndex = first[2]

StartMerge(docs) ==
    /\ documentNodes = docs
    /\ StartAt(NextPosition(docs, 1, 1))
    /\ definitions = <<>>
    /\ warnings = <<>>
    /\ outcome = "running"
    /\ thrown = NoError
    /\ returned = Undef
    /\ GeneratorIdle
    /\ CommandIdle
    /\ AnalysisIdle

\* any list of 1..MaxDocs documents holding up to MaxDefs definitions
InitMerge ==
    /\ isDeno \in BOOLEAN
    /\ \E k \in 0..MaxDefs : \E ids \in [1..k -> DefinitionIds] :
       \E nd \in 1..MaxDocs : \E docOf \in [1..k -> 1..nd] :
          /\ Nondecreasing(docOf, k)
          /\ StartMerge(BuildDocuments(ids, docOf, nd))

\* an iteration of the inner loop that ends normally (merge.ts 531-633)
Visited(r, next) ==
    /\ IsOk(r)
    /\ definitions' = r.value
    /\ warnings' = warnings \o r.warnings
    /\ docIndex' = next[1]
    /\ defIndex' = next[2]

VisitDefinition ==
    /\ outcome = "running"
    /\ ~LoopsOver
    /\ Visited(MergeDefinition(definitions, documentNodes[docIndex].definitions[defIndex]),
               NextPosition(documentNodes, docIndex, defIndex + 1))
    /\ UNCHANGED <<isDeno, documentNodes, outcome, thrown, returned>>
    /\ UNCHANGED <<generatorVars, commandVars, analysisVars>>

\* an iteration of the inner loop that throws
Threw(r) ==
    /\ ~IsOk(r)
    /\ warnings' = warnings \o r.warnings
    /\ thrown' = r.error
    /\ outcome' = "thrown"

ThrowFromDefinition ==
    /\ outcome = "running"
    /\ ~LoopsOver
    /\ Threw(MergeDefinition(definitions, documentNodes[docIndex].definitions[defIndex]))
    /\ UNCHANGED <<isDeno, documentNodes, docIndex, defIndex, definitions, returned>>
    /\ UNCHANGED <<generatorVars, commandVars, analysisVars>>

\* the return after the loops (merge.ts 636-640)
ReturnDocument ==
    /\ outcome = "running"
    /\ LoopsOver
    /\ returned' = DocumentOf(documentNodes, definitions)
    /\ outcome' = "returned"
    /\ UNCHANGED <<isDeno, documentNodes, docIndex, defIndex, definitions, warnings, thrown>>
    /\ UNCHANGED <<generatorVars, commandVars, analysisVars>>

NextMerge == VisitDefinition \/ ThrowFromDefinition \/ ReturnDocument

SpecMerge == InitMerge /\ [][NextMerge]_vars

(***************************************************************************)
(* Properties of one merge (SpecMerge)                                      *)
(***************************************************************************)
InputDefinitions == Flatten(documentNodes, 1)

Finished == outcome # "running"

NameSet(s) == {s[i].name : i \in 1..Len(s)}

\* C3: whenever mergeDocumentNodes returns, the returned document holds
\* exactly one definition per name that occurs in an input document: no two
\* returned definitions share a name (so no directive name is defined twice)
\* and no input name is missing.
C3_OneDefinitionPerName ==
    outcome = "returned" =>
        /\ DistinctNames(returned.definitions)
        /\ NameSet(returned.definitions) = NameSet(InputDefinitions)

\* a merge returned in which some name was defined in two places
C3_Witness ==
    /\ outcome = "returned"
    /\ Len(InputDefinitions) = 2
    /\ InputDefinitions[1].name = InputDefinitions[2].name
    /\ Len(returned.definitions) = 1

\* the input is two definitions, both objects or both interfaces, of one name
TwoFieldedDefinitions ==
    /\ Len(InputDefinitions) = 2
    /\ InputDefinitions[1].kind = InputDefinitions[2].kind
    /\ InputDefinitions[1].kind \in {"ObjectTypeDefinition", "InterfaceTypeDefinition"}
    /\ InputDefinitions[1].name = InputDefinitions[2].name

\* a type reference without its location: the wrappers and the name
RECURSIVE TypeShape(_)
TypeShape(t) ==
    IF t.kind = "NamedType" THEN <<t.name>> ELSE <<t.kind>> \o TypeShape(t.type[1])

ArgumentShapes(f) ==
    {[name |-> f.arguments[i].name, type |-> TypeShape(f.arguments[i].type),
      defaultValue |-> f.arguments[i].defaultValue] : i \in 1..Len(f.arguments)}

SameSignature(f, g) ==
    /\ ArgumentShapes(f) = ArgumentShapes(g)
    /\ Len(f.arguments) = Len(g.arguments)
    /\ TypeShape(f.type) = TypeShape(g.type)

CommonFieldNames(a, b) == NameSet(a.fields) \cap NameSet(b.fields)

FieldNamed(d, n) == d.fields[IndexOfName(d.fields, n, 1)]

CommonFieldsAgree(a, b) ==
    \A n \in CommonFieldNames(a, b) : SameSignature(FieldNamed(a, n), FieldNamed(b, n))

\* directive applications without their locations
DirectiveShapes(ds) == {[name |-> ds[i].name, arguments |-> ds[i].arguments] : i \in 1..Len(ds)}

\* two lists apply some directive with different arguments
DirectivesClash(xs, ys) ==
    \E x \in DirectiveShapes(xs) : \E y \in DirectiveShapes(ys) :
        x.name = y.name /\ x.arguments # y.arguments

NoDirectiveClash(a, b) ==
    /\ ~DirectivesClash(a.directives, b.directives)
    /\ \A n \in CommonFieldNames(a, b) :
          ~DirectivesClash(FieldNamed(a, n).directives, FieldNamed(b, n).directives)

\* the names of a's fields, then those of b's fields that a does not have
FirstSeenFieldNames(a, b) ==
    NamesOf(a.fields) \o
    NamesOf(SelectSeq(b.fields, LAMBDA f : f.name \notin NameSet(a.fields)))

DuplicateWarnings ==
    SelectSeq(warnings, LAMBDA w : w.text = "there is more than one declaration for")

\* one warning per field of b that a declares too, citing b's and a's location
ExpectedDuplicateWarnings(a, b) ==
    LET common == SelectSeq(b.fields, LAMBDA f : f.name \in NameSet(a.fields))
    IN  [i \in 1..Len(common) |->
            [text |-> "there is more than one declaration for",
             subject |-> <<a.name, common[i].name>>,
             locs |-> <<common[i].loc, FieldNamed(a, common[i].name).loc>>]]

MergedAsFieldUnion(a, b) ==
    /\ outcome = "returned"
    /\ Len(returned.definitions) = 1
    /\ NamesOf(returned.definitions[1].fields) = FirstSeenFieldNames(a, b)
    /\ DuplicateWarnings = ExpectedDuplicateWarnings(a, b)

SomeCommonFieldDiffers(a, b) ==
    \E n \in CommonFieldNames(a, b) : ~SameSignature(FieldNamed(a, n), FieldNamed(b, n))

\* the locations an error carries
ErrorLocations(e) == {e.callSite[i].loc : i \in 1..Len(e.callSite)}

\* the places of a declaration of field n in definition d: the field and its type
FieldPlaces(d, n) == {FieldNamed(d, n).loc, FieldNamed(d, n).type.loc}

IsFieldConflict(e) ==
    /\ e.type = "GraphQLError"
    /\ e.text \in {"Cannot merge duplicate field with different type",
                   "Cannot merge duplicate field with different arguments"}

\* C9: when two object/interface definitions of one name declare a field of
\* the same name with a different return type or argument set, the merge
\* throws a field-conflict error that names Type.field and identifies both
\* conflicting locations, the earlier and the later declaration, and returns
\* no document.
C9_FieldConflictNamesBothLocations ==
    (Finished /\ TwoFieldedDefinitions
       /\ ~DirectivesClash(InputDefinitions[1].directives, InputDefinitions[2].directives)
       /\ SomeCommonFieldDiffers(InputDefinitions[1], InputDefinitions[2]))
    => /\ outcome = "thrown"
       /\ returned = Undef
       /\ IsFieldConflict(thrown)
       /\ thrown.subject[1] = InputDefinitions[1].name
       /\ thrown.subject[2] \in CommonFieldNames(InputDefinitions[1], InputDefinitions[2])
       /\ ErrorLocations(thrown) \cap FieldPlaces(InputDefinitions[1], thrown.subject[2]) # {}
       /\ ErrorLocations(thrown) \cap FieldPlaces(InputDefinitions[2], thrown.subject[2]) # {}

TwoEnumDefinitions ==
    /\ Len(InputDefinitions) = 2
    /\ InputDefinitions[1].kind = "EnumTypeDefinition"
    /\ InputDefinitions[2].kind = "EnumTypeDefinition"
    /\ InputDefinitions[1].name = InputDefinitions[2].name

CommonValueNames(a, b) == NameSet(a.values) \cap NameSet(b.values)

MaxIdemDefs == 2

\* the kinds mergeDocumentNodes accepts (those its switch of 532-544 lets by)
MergeableIds == DefinitionIds \ {"UserExt"}

\* one parsed document, of definitions with distinct names, passed twice
InitIdem ==
    /\ isDeno \in BOOLEAN
    /\ \E k \in 1..MaxIdemDefs : \E ids \in [1..k -> MergeableIds] :
          /\ DistinctNames(DefinitionsOfDoc(ids, [i \in 1..k |-> 1], 1))
          /\ StartMerge(<<DocumentNode(1, DefinitionsOfDoc(ids, [i \in 1..k |-> 1], 1)),
                          DocumentNode(1, DefinitionsOfDoc(ids, [i \in 1..k |-> 1], 1))>>)

SpecIdem == InitIdem /\ [][NextMerge]_vars

MergedWithItself ==
    /\ Len(documentNodes) = 2
    /\ documentNodes[1] = documentNodes[2]
    /\ DistinctNames(documentNodes[1].definitions)
    /\ \A i \in 1..Len(documentNodes[1].definitions) :
          documentNodes[1].definitions[i].kind \notin UnmergeableKinds

\* the same fields, enum values, members, interfaces and directives
SameContent(m, d) ==
    /\ m.kind = d.kind
    /\ m.name = d.name
    /\ m.fields = d.fields
    /\ m.values = d.values
    /\ m.types = d.types
    /\ m.interfaces = d.interfaces
    /\ m.directives = d.directives

ReturnsTheDocument(doc) ==
    /\ outcome = "returned"
    /\ NamesOf(returned.definitions) = NamesOf(doc.definitions)
    /\ \A i \in 1..Len(doc.definitions) :
          SameContent(DictGet(returned.definitions, doc.definitions[i].name),
                      doc.definitions[i])
    /\ \A i \in 1..Len(warnings) : warnings[i].text = "there is more than one declaration for"

RedeclaresUnrepeatable(doc) ==
    \E i \in 1..Len(doc.definitions) :
        \/ doc.definitions[i].kind = "DirectiveDefinition"
        \/ doc.definitions[i].values # <<>>

\* a definition's description survives the merge with itself, a scalar's is dropped
DescriptionsKeptExceptScalars(doc) ==
    \A i \in 1..Len(doc.definitions) :
        DictGet(returned.definitions, doc.definitions[i].name).description =
            IF doc.definitions[i].kind = "ScalarTypeDefinition" THEN Undef
            ELSE doc.definitions[i].description

MaxPermDefs == 3

PermIds ==
    {"UserA", "UserB", "UserE", "ColorA", "ColorC", "DateA", "DateB",
     "ResultA", "ResultB", "FilterA", "FilterB"}

\* documents A, B, C (files 1, 2, 3), merged as [A, B, C]
InitPerm ==
    /\ isDeno \in BOOLEAN
    /\ \E k \in 0..MaxPermDefs : \E ids \in [1..k -> PermIds] :
       \E docOf \in [1..k -> 1..3] :
          /\ Nondecreasing(docOf, k)
          /\ StartMerge(BuildDocuments(ids, docOf, 3))

SpecPerm == InitPerm /\ [][NextMerge]_vars

\* the orders of three documents
Orders == {p \in [1..3 -> 1..3] : \A i \in 1..3 : \E j \in 1..3 : p[j] = i}

Reordered(docs, p) == [i \in 1..3 |-> docs[p[i]]]

\* mergeDocumentNodes([mergeDocumentNodes([A, B]), C])
MergedThenMerged(first, docs) ==
    IF IsOk(first) THEN mergeDocumentNodes(<<first.value, docs[3]>>) ELSE first

MergedInSteps(docs) == MergedThenMerged(mergeDocumentNodes(<<docs[1], docs[2]>>), docs)

FieldSignatures(d) ==
    {[name |-> d.fields[i].name,
      type |-> TypeShape(d.fields[i].type),
      arguments |-> IF d.kind = "InputObjectTypeDefinition" THEN {}
                    ELSE ArgumentShapes(d.fields[i]),
      defaultValue |-> IF d.kind = "InputObjectTypeDefinition"
                       THEN d.fields[i].defaultValue ELSE Undef] : i \in 1..Len(d.fields)}

\* a definition without the order of its lists and without its description
TableEntry(d) ==
    [kind |-> d.kind, name |-> d.name,
     fields |-> FieldSignatures(d),
     values |-> NameSet(d.values),
     types |-> NameSet(d.types),
     interfaces |-> NameSet(d.interfaces),
     directives |-> DirectiveShapes(d.directives)]

\* the description as a list: empty, or the text
DescriptionText(d) == IF IsUndef(d.description) THEN <<>> ELSE <<d.description.value>>

DescribedEntry(d) == [entry |-> TableEntry(d), description |-> DescriptionText(d)]

\* the name-keyed table of a document, with and without the descriptions
DefinitionTable(doc) == {TableEntry(doc.definitions[i]) : i \in 1..Len(doc.definitions)}

DescribedTable(doc) == {DescribedEntry(doc.definitions[i]) : i \in 1..Len(doc.definitions)}

ThreeDocuments == Len(documentNodes) = 3

\* r is a returned document with the table, descriptions included, of `returned`
ReturnsDescribedTable(r) ==
    /\ IsOk(r)
    /\ DescribedTable(r.value) = DescribedTable(returned)

DescriptionsFor(n) ==
    {DescriptionText(InputDefinitions[i]) :
        i \in {j \in 1..Len(InputDefinitions) :
                 InputDefinitions[j].name = n /\ ~IsUndef(InputDefinitions[j].description)}}

\* no name is described with two different texts
DescriptionsAgree ==
    \A i \in 1..Len(InputDefinitions) :
        Cardinality(DescriptionsFor(InputDefinitions[i].name)) <= 1

\* r is a returned document with the table of `returned`, and with its
\* descriptions when the input does not describe a name in two ways
ReturnsTable(r) ==
    /\ IsOk(r)
    /\ IF DescriptionsAgree
       THEN DescribedTable(r.value) = DescribedTable(returned)
       ELSE DefinitionTable(r.value) = DefinitionTable(returned)

Sym(base) == [base |-> base, suffix |-> <<>>]

\* name + "$" + i
Dollar(name, i) == [name EXCEPT !.suffix = Append(@, i)]

\* an alias argument that is left out or empty: `alias || name` takes name
NoAlias == Sym("")

\* keywords.has(symbol), for the reserved words the model uses
keywords == {Sym("class")}

\* a record as Object.entries lists it: the keys in insertion order
NewRequiredPackages == [requires |-> <<>>, symbols |-> <<>>, aliases |-> <<>>]

\* obj[key] = value
Put(obj, key, value) ==
    [k \in DOMAIN obj \cup {key} |-> IF k = key THEN value ELSE obj[k]]

\* the position of pkg in requires, 0 when `pkg in this.requires` is false
RECURSIVE IndexOfPkg(_, _, _)
IndexOfPkg(requires, pkg, i) ==
    IF i > Len(requires) THEN 0
    ELSE IF requires[i].pkg = pkg THEN i
    ELSE IndexOfPkg(requires, pkg, i + 1)

\* Set.prototype.add: the insertion order is kept, a member is not added again
SetAdd(members, x) ==
    IF \E i \in 1..Len(members) : members[i] = x THEN members ELSE Append(members, x)

\* this.requires[pkg].add(symbol), after the entry has been made (19-21, 32)
RequiresAdd(requires, pkg, symbol) ==
    IF IndexOfPkg(requires, pkg, 1) = 0
    THEN Append(requires, [pkg |-> pkg, symbols |-> <<symbol>>])
    ELSE [requires EXCEPT ![IndexOfPkg(requires, pkg, 1)].symbols = SetAdd(@, symbol)]

\* this.symbols[symbol] is set and is not pkg
OwnedByAnother(reg, symbol, pkg) ==
    symbol \in DOMAIN reg.symbols /\ reg.symbols[symbol] # pkg

\* the loop of lines 25-29: the first name$i that is free or is pkg's
RECURSIVE Probe(_, _, _, _)
Probe(reg, pkg, name, i) ==
    IF OwnedByAnother(reg, Dollar(name, i), pkg) THEN Probe(reg, pkg, name, i + 1)
    ELSE Dollar(name, i)

\* the condition of line 24; an unset this.symbols[symbol] differs from pkg
MustRename(reg, pkg, symbol) ==
    /\ symbol \in DOMAIN reg.symbols \/ symbol \in keywords
    /\ ~(symbol \in DOMAIN reg.symbols /\ reg.symbols[symbol] = pkg)

LocalName(reg, pkg, name, symbol) ==
    IF MustRename(reg, pkg, symbol) THEN Probe(reg, pkg, name, 1) ELSE symbol

\* lines 32-37, once symbol is chosen
Registered(reg, pkg, name, symbol) ==
    [pkgs |-> [requires |-> RequiresAdd(reg.requires, pkg, symbol),
               symbols |-> Put(reg.symbols, symbol, pkg),
               aliases |-> IF symbol # name THEN Put(reg.aliases, symbol, name)
                           ELSE reg.aliases],
     symbol |-> symbol]

\* addRequires(pkg, name, alias): the registry afterwards and the value returned
addRequires(reg, pkg, name, alias) ==
    Registered(reg, pkg, name,
               LocalName(reg, pkg, name, IF alias # NoAlias THEN alias ELSE name))

(***************************************************************************)
(* Calls of addRequires on one instance (SpecPkgs)                          *)
(***************************************************************************)
\* the calls made on the instance
MaxCalls == 4

Modules == {"graphql", "/src/scalars.ts"}

\* exported names: plain ones, a reserved word, and one of the form name$i
ExportNames == {Sym("foo"), Sym("bar"), Sym("class"), Dollar(Sym("foo"), 1)}

AliasArguments == {NoAlias, Sym("foo"), Dollar(Sym("foo"), 1)}

InitPkgs ==
    /\ pkgs = NewRequiredPackages
    /\ calls = <<>>
    /\ schemaTypes = <<>>
    /\ scalarsInfo = <<>>
    /\ extMode = "omit"
    /\ outputs = <<>>
    /\ MergeIdle
    /\ CommandIdle
    /\ AnalysisIdle

Called(pkg, name, alias, r) ==
    /\ pkgs' = r.pkgs
    /\ calls' = Append(calls, [pkg |-> pkg, name |-> name, alias |-> alias,
                               symbol |-> r.symbol])

AddRequires ==
    /\ Len(calls) < MaxCalls
    /\ \E pkg \in Modules : \E name \in ExportNames : \E alias \in AliasArguments :
          Called(pkg, name, alias, addRequires(pkgs, pkg, name, alias))
    /\ UNCHANGED <<schemaTypes, scalarsInfo, extMode, outputs>>
    /\ UNCHANGED <<mergeVars, commandVars, analysisVars>>

NextPkgs == AddRequires

SpecPkgs == InitPkgs /\ [][NextPkgs]_vars

\* C4: no local name stands for two distinct imported bindings: two calls
\* that returned the same local name asked for the same module and the same
\* exported name.
C4_LocalNameStandsForOneBinding ==
    \A i \in 1..Len(calls) : \A j \in 1..Len(calls) :
        calls[i].symbol = calls[j].symbol =>
            (calls[i].pkg = calls[j].pkg /\ calls[i].name = calls[j].name)

\* the call a step makes, and an earlier call with the same arguments
LastCall == calls'[Len(calls')]

RepeatsCall(i) ==
    /\ calls[i].pkg = LastCall.pkg
    /\ calls[i].name = LastCall.name
    /\ calls[i].alias = NoAlias
    /\ LastCall.alias = NoAlias

\* C5: a request (module, name) made before returns the local name it
\* returned then and leaves requires, symbols and aliases as they are,
\* whatever calls, with or without alias, were made before or in between.
C5_RepeatedRequestChangesNothing ==
    [][\A i \in 1..Len(calls) :
          RepeatsCall(i) => (LastCall.symbol = calls[i].symbol /\ pkgs' = pkgs)]_vars

(***************************************************************************)
(* The renderer, for schemas of custom scalar types (generate/generate.ts)  *)
(***************************************************************************)
\* a.localeCompare(b) for two symbols: the base names, then the "$" numbers
RECURSIVE SuffixCompare(_, _, _)
SuffixCompare(a, b, i) ==
    IF i > Len(a) THEN (IF i > Len(b) THEN 0 ELSE -1)
    ELSE IF i > Len(b) THEN 1
    ELSE IF a[i] # b[i] THEN (IF a[i] < b[i] THEN -1 ELSE 1)
    ELSE SuffixCompare(a, b, i + 1)

SymbolCompare(a, b) ==
    IF a.base # b.base THEN LocaleCompare(a.base, b.base)
    ELSE SuffixCompare(a.suffix, b.suffix, 1)

\* Array.from(symbols).sort(...) of renderImports (generate.ts 103-105)
RECURSIVE InsertSymbol(_, _, _)
InsertSymbol(sorted, symbol, i) ==
    IF i > Len(sorted) THEN Append(sorted, symbol)
    ELSE IF SymbolCompare(symbol, sorted[i]) < 0
         THEN SubSeq(sorted, 1, i - 1) \o <<symbol>> \o SubSeq(sorted, i, Len(sorted))
         ELSE InsertSymbol(sorted, symbol, i + 1)

RECURSIVE SortSymbolsFrom(_, _, _)
SortSymbolsFrom(sorted, symbols, i) ==
    IF i > Len(symbols) THEN sorted
    ELSE SortSymbolsFrom(InsertSymbol(sorted, symbols[i], 1), symbols, i + 1)

\* the modules of the model that are absolute paths: pkg.startsWith("/")
LocalModules == {"/src/scalars.ts", "/src/money.ts"}

\* path.relative(base, mod), "./" put before it, for an outfile in /src
RelativeModule(pkg) ==
    CASE pkg = "/src/scalars.ts" -> "./scalars"
      [] pkg = "/src/money.ts" -> "./money"

\* the module specifier of an import (generate.ts 82-100): the path without
\* its extension, and the extension the mode leaves
ModuleSpecifier(pkg, mode) ==
    IF pkg \notin LocalModules THEN [path |-> pkg, ext |-> ""]
    ELSE [path |-> RelativeModule(pkg),
          ext |-> CASE mode = "omit" -> ""
                    [] mode = "replace" -> ".js"
                    [] mode = "keep" -> ".ts"]

\* symbol in aliases ? `aliases[symbol] as symbol` : symbol (generate.ts 106)
ImportSpecifier(aliases, symbol) ==
    IF symbol \in DOMAIN aliases THEN [id |-> aliases[symbol], as |-> <<symbol>>]
    ELSE [id |-> symbol, as |-> <<>>]

ImportStatement(entry, aliases, mode) ==
    [from |-> ModuleSpecifier(entry.pkg, mode),
     names |-> [i \in 1..Len(entry.symbols) |->
                   ImportSpecifier(aliases, SortSymbolsFrom(<<>>, entry.symbols, 1)[i])]]

renderImports(imports, aliases, mode) ==
    [i \in 1..Len(imports) |-> ImportStatement(imports[i], aliases, mode)]

\* a SymbolReference; module "" is a reference without a module
Reference(module, symbol) == [module |-> module, symbol |-> symbol, alias |-> NoAlias]

NoInfo == Reference("", Sym(""))

\* renderSymbolReference (utils/reference.ts): the registry afterwards and
\* the identifier rendered
renderSymbolReference(reg, ref) ==
    IF ref.module # "" THEN addRequires(reg, ref.module, ref.symbol, ref.alias)
    ELSE [pkgs |-> reg, symbol |-> ref.symbol]

\* the serialize property: the bound function, or the stub (generate.ts 543)
Stub == Sym("v => v")

SerializeProperty(reg, info) ==
    IF info # NoInfo THEN renderSymbolReference(reg, info)
    ELSE [pkgs |-> reg, symbol |-> Stub]

\* a statement: `const <const> = new <new>({name, serialize, types})`
Statement(const, new, name, serialize, types) ==
    [const |-> const, new |-> new, name |-> name, serialize |-> serialize, types |-> types]

\* const <name>Scalar = new GraphQLScalarType({name, serialize})
ScalarStatement(type, gql, serialize) ==
    [pkgs |-> serialize.pkgs,
     statement |-> Statement(<<type.name, "Scalar">>, gql.symbol, type.name,
                             serialize.symbol, <<>>)]

ScalarAfterGql(type, info, gql) ==
    ScalarStatement(type, gql, SerializeProperty(gql.pkgs, info))

\* this._gql(name) with the default graphqlModuleSpecifier
Gql(reg, name) == addRequires(reg, "graphql", Sym(name), NoAlias)

\* _renderGraphQLTypeDefinitions for a scalar (generate.ts 533-548, 905-917)
renderGraphQLScalarTypeDefinition(reg, type, info) ==
    ScalarAfterGql(type, info, Gql(reg, "GraphQLScalarType"))

RECURSIVE RenderDefinitionsFrom(_, _, _, _, _)
DefinitionRendered(r, types, info, i, statements) ==
    RenderDefinitionsFrom(r.pkgs, types, info, i + 1, Append(statements, r.statement))

RenderDefinitionsFrom(reg, types, info, i, statements) ==
    IF i > Len(types) THEN [pkgs |-> reg, statements |-> statements]
    ELSE DefinitionRendered(renderGraphQLScalarTypeDefinition(reg, types[i], info[types[i].name]),
                            types, info, i, statements)

\* const schema = new GraphQLSchema({types: [...]}); export default schema
SchemaStatement(r, gql, types) ==
    [pkgs |-> gql.pkgs,
     statements |-> r.statements \o
        <<Statement(<<"schema">>, gql.symbol, "", Sym(""),
                    [i \in 1..Len(types) |-> <<types[i].name, "Scalar">>]),
          Statement(<<"export default schema">>, Sym(""), "", Sym(""), <<>>)>>]

SchemaAfterDefinitions(r, types) == SchemaStatement(r, Gql(r.pkgs, "GraphQLSchema"), types)

\* the types createGenerator prepares: sorted by name (generate.ts 1091-1094)
PreparedTypes(types) == sortNamedNodes(types)

schemaExprs(reg, types, info) ==
    SchemaAfterDefinitions(RenderDefinitionsFrom(reg, PreparedTypes(types), info, 1, <<>>),
                           PreparedTypes(types))

\* setTypename, then per type its types: none for a scalar (generate.ts 1018-1040)
typesExprs(reg, types, info) ==
    [pkgs |-> reg,
     statements |-> <<Statement(<<"setTypename">>, Sym(""), "", Sym(""), <<>>)>>]

TypesAfterSchema(r, types, info) ==
    [pkgs |-> typesExprs(r.pkgs, types, info).pkgs,
     statements |-> r.statements \o typesExprs(r.pkgs, types, info).statements]

schemaAndTypesExprs(reg, types, info) ==
    TypesAfterSchema(schemaExprs(reg, types, info), types, info)

renderStatements(kind, reg, types, info) ==
    CASE kind = "generateSchema" -> schemaExprs(reg, types, info)
      [] kind = "generateTypes" -> typesExprs(reg, types, info)
      [] kind = "generate" -> schemaAndTypesExprs(reg, types, info)

\* partition(Object.entries(requires), ([pkg]) => pkg.startsWith("/"))
LocalImports(requires) == SelectSeq(requires, LAMBDA e : e.pkg \in LocalModules)

ExternalImports(requires) == SelectSeq(requires, LAMBDA e : e.pkg \notin LocalModules)

\* the file renderFile returns once the statements are rendered (1060-1069)
FileOf(r, mode) ==
    [pkgs |-> r.pkgs,
     text |-> [external |-> renderImports(ExternalImports(r.pkgs.requires),
                                          r.pkgs.aliases, mode),
               local |-> renderImports(LocalImports(r.pkgs.requires), r.pkgs.aliases, mode),
               statements |-> r.statements]]

\* the registry a context that keeps the previous context's registry would use
SharedGeneratorContext == pkgs

\* new GeneratorContext(options): its _pkgs (generate.ts 167)
GeneratorContext == NewRequiredPackages

renderFile(kind, types, info, mode) ==
    FileOf(renderStatements(kind, GeneratorContext, types, info), mode)

(***************************************************************************)
(* The generator createGenerator returns, called any number of times        *)
(* (SpecRender)                                                             *)
(***************************************************************************)
\* the calls of generateSchema / generateTypes / generate on one generator
MaxRuns == 3

ScalarNames == {"Date", "Money"}

\* the serialize bindings a scalar can have
SerializeFuncs ==
    {NoInfo,
     Reference("/src/scalars.ts", Sym("foo")),
     Reference("/src/money.ts", Sym("foo")),
     Reference("/src/scalars.ts", Sym("GraphQLScalarType"))}

\* the lists of distinct scalar types, in any type-map order
TypeMaps ==
    {<<>>} \cup {<<[name |-> n]>> : n \in ScalarNames}
           \cup {<<[name |-> n], [name |-> m]>> : <<n, m>> \in
                    {nm \in ScalarNames \X ScalarNames : nm[1] # nm[2]}}

InitRender ==
    /\ schemaTypes \in TypeMaps
    /\ scalarsInfo \in [ScalarNames -> SerializeFuncs]
    /\ extMode \in {"omit", "replace", "keep"}
    /\ pkgs = NewRequiredPackages
    /\ calls = <<>>
    /\ outputs = <<>>
    /\ MergeIdle
    /\ CommandIdle
    /\ AnalysisIdle

\* one call: a new context renders the file; the call returns its text
Returned(kind, file) ==
    /\ pkgs' = file.pkgs
    /\ outputs' = Append(outputs, [kind |-> kind, text |-> file.text])
    /\ UNCHANGED <<calls, schemaTypes, scalarsInfo, extMode>>
    /\ UNCHANGED <<mergeVars, commandVars, analysisVars>>

GenerateSchema ==
    /\ Len(outputs) < MaxRuns
    /\ Returned("generateSchema", renderFile("generateSchema", schemaTypes, scalarsInfo, extMode))

GenerateTypes ==
    /\ Len(outputs) < MaxRuns
    /\ Returned("generateTypes", renderFile("generateTypes", schemaTypes, scalarsInfo, extMode))

Generate ==
    /\ Len(outputs) < MaxRuns
    /\ Returned("generate", renderFile("generate", schemaTypes, scalarsInfo, extMode))

NextRender == GenerateSchema \/ GenerateTypes \/ Generate

SpecRender == InitRender /\ [][NextRender]_vars

SchemaInputs ==
    {<<>>, <<"UserA">>, <<"UserA", "UserB">>, <<"UserA", "UserC">>, <<"ColorA", "ColorB">>,
     <<"DateA", "AuthDef">>}

OutputFiles == {"schema_gen.ts", "types_gen.ts"}

\* the awaits of the binding analysis, in the order main reaches them
AnalysisSteps ==
    <<"parseScalars", "parseFieldDirectives", "parseInputDirectives", "parseResolvers",
      "parseSubscribers">>

InitCmd ==
    /\ argv \in [ext : {"omit", "replace", "keep", "strip"}, split : BOOLEAN,
                 schema : SchemaInputs]
    /\ pc = "start"
    /\ files = [f \in OutputFiles |-> "absent"]
    /\ rendered = {}
    /\ logged = NoError
    /\ MergeIdle
    /\ GeneratorIdle
    /\ AnalysisIdle

\* the catch of main: the error is logged, main is over (part_003 173-184)
Caught(error) ==
    /\ logged' = error
    /\ pc' = "done"

\* the switch on ext, up to the await of parseSchema (133-143)
Start ==
    /\ pc = "start"
    /\ IF argv.ext \in {"keep", "replace", "omit"}
       THEN pc' = "parseSchema" /\ UNCHANGED logged
       ELSE Caught(PlainError("invalid mode for --ext", <<argv.ext>>))
    /\ UNCHANGED <<argv, files, rendered>>
    /\ UNCHANGED <<mergeVars, generatorVars, analysisVars>>

\* the documents parse() collects from the schema files
DocumentsOf(ids) == BuildDocuments(ids, [i \in 1..Len(ids) |-> i], Len(ids))

\* parse() after the merge (part_007 50-56): buildASTSchema and
\* validateSchema accept the merged document or do not
Validated(merged, valid) ==
    IF ~IsOk(merged) THEN Caught(merged.error)
    ELSE IF ~valid THEN Caught(PlainError("validation errors", <<>>))
    ELSE pc' = AnalysisSteps[1] /\ UNCHANGED logged

\* parseSchema settles (part_007 29-56)
ParseSchema ==
    /\ pc = "parseSchema"
    /\ IF argv.schema = <<>>
       THEN Caught(PlainError("No graphql files found", <<>>))
       ELSE \E valid \in BOOLEAN :
               Validated(mergeDocumentNodes(DocumentsOf(argv.schema)), valid)
    /\ UNCHANGED <<argv, files, rendered>>
    /\ UNCHANGED <<mergeVars, generatorVars, analysisVars>>

\* one of parseScalars, parseTypeResolvers, parseResolvers settles (145-156);
\* after the last, createGenerator runs and normalizeOutfile is awaited
Analyse ==
    /\ \E k \in 1..Len(AnalysisSteps) :
          /\ pc = AnalysisSteps[k]
          /\ \E ok \in BOOLEAN :
                IF ~ok THEN Caught(PlainError("analysis failed", <<AnalysisSteps[k]>>))
                ELSE /\ pc' = IF k < Len(AnalysisSteps) THEN AnalysisSteps[k + 1]
                              ELSE "normalizeOutfile"
                     /\ UNCHANGED logged
    /\ UNCHANGED <<argv, files, rendered>>
    /\ UNCHANGED <<mergeVars, generatorVars, analysisVars>>

\* fs.writeFile(outfile, generator.generate(outfile)) and its await (171)
WriteOneFile(renders) ==
    IF ~renders
    THEN Caught(PlainError("render failed", <<"generate">>)) /\ UNCHANGED <<files, rendered>>
    ELSE /\ rendered' = rendered \cup {"generate"}
         /\ files' = [files EXCEPT !["schema_gen.ts"] = "writing"]
         /\ pc' = "writeFile"
         /\ UNCHANGED logged

\* normalizeOutfile(out) settles (163); without the split options the file
\* is rendered and its write started
NormalizedOutfile ==
    /\ pc = "normalizeOutfile"
    /\ IF argv.split
       THEN pc' = "normalizeTypesfile" /\ UNCHANGED <<files, rendered, logged>>
       ELSE \E renders \in BOOLEAN : WriteOneFile(renders)
    /\ UNCHANGED argv
    /\ UNCHANGED <<mergeVars, generatorVars, analysisVars>>

\* the array handed to Promise.all (166-169), its elements evaluated from
\* left to right: generateSchema, writeFile, generateTypes, writeFile
WriteTwoFiles(schemaRenders, typesRenders) ==
    IF ~schemaRenders
    THEN Caught(PlainError("render failed", <<"generateSchema">>))
         /\ UNCHANGED <<files, rendered>>
    ELSE IF ~typesRenders
    THEN /\ rendered' = rendered \cup {"generateSchema"}
         /\ files' = [files EXCEPT !["schema_gen.ts"] = "writing"]
         /\ Caught(PlainError("render failed", <<"generateTypes">>))
    ELSE /\ rendered' = rendered \cup {"generateSchema", "generateTypes"}
         /\ files' = [f \in OutputFiles |-> "writing"]
         /\ pc' = "writeFile"
         /\ UNCHANGED logged

\* normalizeOutfile(typesOut) settles (165-168)
NormalizedTypesfile ==
    /\ pc = "normalizeTypesfile"
    /\ \E schemaRenders \in BOOLEAN : \E typesRenders \in BOOLEAN :
          WriteTwoFiles(schemaRenders, typesRenders)
    /\ UNCHANGED argv
    /\ UNCHANGED <<mergeVars, generatorVars, analysisVars>>

\* a write that was started completes, whether or not main still waits for
\* it; main goes on when no write is left
WriteFileSettles ==
    /\ \E f \in OutputFiles :
          /\ files[f] = "writing"
          /\ files' = [files EXCEPT ![f] = "written"]
          /\ pc' = IF pc = "writeFile" /\ \A g \in OutputFiles \ {f} : files[g] # "writing"
                   THEN "done" ELSE pc
    /\ UNCHANGED <<argv, rendered, logged>>
    /\ UNCHANGED <<mergeVars, generatorVars, analysisVars>>

NextCmd ==
    \/ Start
    \/ ParseSchema
    \/ Analyse
    \/ NormalizedOutfile
    \/ NormalizedTypesfile
    \/ WriteFileSettles

SpecCmd == InitCmd /\ [][NextCmd]_vars

\* the outputs the run was asked for
RequestedOutputs == IF argv.split THEN {"generateSchema", "generateTypes"} ELSE {"generate"}

\* C7: no partial output: a file is being written or has been written only
\* when every requested output has been rendered successfully (and so no
\* merge, validation, analysis or rendering error has been met).
C7_NoWriteBeforeAllRendered ==
    (\E f \in OutputFiles : files[f] # "absent") => rendered = RequestedOutputs

(***************************************************************************)
(* One name declared several times with the same kind, the occurrences     *)
(* differing in their descriptions (SpecDesc)                               *)
(***************************************************************************)
\* the occurrences of the name, one per document
MaxOccurrences == 3

MergeableKinds ==
    {"ScalarTypeDefinition", "ObjectTypeDefinition", "InterfaceTypeDefinition",
     "UnionTypeDefinition", "EnumTypeDefinition", "InputObjectTypeDefinition"}

DescriptionTexts == {"", "one", "two"}

\* """text""" in front of a definition, or nothing
DescriptionOf(text, f) == IF text = "" THEN Undef ELSE Described(text, f, 1)

\* the type of the field id of an object or interface occurrence
IdTypes == {"ID", "String"}

\* occurrence f of the name Thing: the same members each time, except for an
\* enum, whose occurrences declare one value each, and for the type t of the
\* field id of an object or an interface
OccurrenceOf(kind, text, f, t) ==
    DefinitionNode(kind, "Thing", DescriptionOf(text, f), Loc(f, 1, "Thing"), <<>>, <<>>,
        IF kind \in {"ObjectTypeDefinition", "InterfaceTypeDefinition"}
            THEN <<IdField(t, f, 1)>>
        ELSE IF kind = "InputObjectTypeDefinition" THEN <<LimitField("10", <<>>, f, 1)>>
        ELSE <<>>,
        IF kind = "EnumTypeDefinition"
            THEN <<EnumValueDefinitionNode(<<"RED", "GREEN", "BLUE">>[f], Loc(f, 1, "value"))>>
        ELSE <<>>,
        IF kind = "UnionTypeDefinition" THEN <<NamedTypeNode("User", Loc(f, 1, "User"))>>
        ELSE <<>>)

InitDesc ==
    /\ isDeno \in BOOLEAN
    /\ \E kind \in MergeableKinds : \E n \in 2..MaxOccurrences :
       \E texts \in [1..n -> DescriptionTexts] :
       \E t \in (IF kind \in {"ObjectTypeDefinition", "InterfaceTypeDefinition"}
                 THEN IdTypes ELSE {"ID"}) :
          StartMerge([f \in 1..n |->
              DocumentNode(f, <<OccurrenceOf(kind, texts[f], f, IF f = n THEN t ELSE "ID")>>)])

SpecDesc == InitDesc /\ [][NextMerge]_vars

\* the described occurrences of the name, in the order of the documents
DescribedOccurrences ==
    {f \in 1..Len(documentNodes) : ~IsUndef(documentNodes[f].definitions[1].description)}

OccurrenceText(f) == documentNodes[f].definitions[1].description.value

DescriptionsDiffer ==
    \E f \in DescribedOccurrences : \E g \in DescribedOccurrences :
        OccurrenceText(f) # OccurrenceText(g)

\* the occurrences declare the field id with different types
IdTypeOf(f) == documentNodes[f].definitions[1].fields[1].type.type[1].name

FieldsClash ==
    /\ documentNodes[1].definitions[1].kind \in
          {"ObjectTypeDefinition", "InterfaceTypeDefinition"}
    /\ \E f \in 1..Len(documentNodes) : \E g \in 1..Len(documentNodes) :
          IdTypeOf(f) # IdTypeOf(g)

FirstDescribed == CHOOSE f \in DescribedOccurrences : \A g \in DescribedOccurrences : f <= g

DescriptionWarned ==
    \E i \in 1..Len(warnings) : warnings[i].text = "different descriptions for type"

KeepsFirstDescription ==
    /\ outcome = "returned"
    /\ DescriptionWarned
    /\ ~IsUndef(returned.definitions[1].description)
    /\ returned.definitions[1].description.value = OccurrenceText(FirstDescribed)

\* C11: when a name is defined more than once with the same kind and the
\* occurrences carry different descriptions (and their members do not
\* conflict), the merge returns, a warning
\* about the descriptions is emitted and the merged definition keeps the
\* description of the first occurrence that has one.
C11_DifferingDescriptionsWarnFirstWins ==
    (Finished /\ DescriptionsDiffer /\ ~FieldsClash) => KeepsFirstDescription

(***************************************************************************)
(* isValueNodeEqual applied to pairs of value nodes (SpecEq)                *)
(***************************************************************************)
\* the elements of a list value and the fields of an object value
MaxValues == 2

ListValueNode(vs) == [kind |-> "ListValue", value |-> "", values |-> vs, fields |-> <<>>]

ObjectValueNode(fs) == [kind |-> "ObjectValue", value |-> "", values |-> <<>>, fields |-> fs]

ObjectFieldNode(n, v) == [name |-> n, value |-> v]

SeqsUpTo(S, n) == UNION {[1..k -> S] : k \in 0..n}

\* 1, 2, "1", null, $x, $y
ValueLeaves ==
    {ScalarValueNode("IntValue", "1"), ScalarValueNode("IntValue", "2"),
     ScalarValueNode("StringValue", "1"), ScalarValueNode("NullValue", ""),
     ScalarValueNode("Variable", "x"), ScalarValueNode("Variable", "y")}

ListElements ==
    {ScalarValueNode("IntValue", "1"), ScalarValueNode("IntValue", "2"),
     ScalarValueNode("NullValue", "")}

FieldValues == {ScalarValueNode("IntValue", "1"), ScalarValueNode("IntValue", "2")}

FlatLists == {ListValueNode(vs) : vs \in SeqsUpTo(ListElements, MaxValues)}

\* objects whose fields are named a and b, in either order
FlatObjects ==
    {ObjectValueNode(fs) :
        fs \in {s \in SeqsUpTo({ObjectFieldNode(n, v) : n \in {"a", "b"}, v \in FieldValues},
                               MaxValues) : DistinctNames(s)}}

\* [], [1], [1, 2], {}, {a: 1}, {a: 1, b: 2}
NestedElements ==
    {ListValueNode(<<>>),
     ListValueNode(<<ScalarValueNode("IntValue", "1")>>),
     ListValueNode(<<ScalarValueNode("IntValue", "1"), ScalarValueNode("IntValue", "2")>>),
     ObjectValueNode(<<>>),
     ObjectValueNode(<<ObjectFieldNode("a", ScalarValueNode("IntValue", "1"))>>),
     ObjectValueNode(<<ObjectFieldNode("a", ScalarValueNode("IntValue", "1")),
                       ObjectFieldNode("b", ScalarValueNode("IntValue", "2"))>>)}

NestedLists == {ListValueNode(vs) : vs \in SeqsUpTo(NestedElements, MaxValues)}

ValueNodes == ValueLeaves \cup FlatLists \cup FlatObjects \cup NestedLists

InitEq ==
    /\ lhs \in ValueNodes
    /\ rhs \in ValueNodes
    /\ verdict = "pending"
    /\ converse = "pending"
    /\ MergeIdle
    /\ GeneratorIdle
    /\ CommandIdle
    /\ ExportsIdle
    /\ ScalarsIdle
    /\ ResolversIdle
    /\ LookupIdle
    /\ LaterIdle

\* isValueNodeEqual(lhs, rhs)
Compare ==
    /\ verdict = "pending"
    /\ verdict' = isValueNodeEqual(lhs, rhs)
    /\ UNCHANGED <<lhs, rhs, converse>>
    /\ UNCHANGED exceptEquality

\* isValueNodeEqual(rhs, lhs)
CompareConverse ==
    /\ converse = "pending"
    /\ converse' = isValueNodeEqual(rhs, lhs)
    /\ UNCHANGED <<lhs, rhs, verdict>>
    /\ UNCHANGED exceptEquality

NextEq == Compare \/ CompareConverse

SpecEq == InitEq /\ [][NextEq]_vars

\* the structural equality of value nodes: same tag and same scalar
\* payload; lists of the same length, pairwise equal; objects with the same
\* field names and equal values under each name; null and variable nodes
\* equal to any node of their tag
RECURSIVE StructurallyEqual(_, _)
StructurallyEqual(x, y) ==
    /\ x.kind = y.kind
    /\ CASE x.kind \in {"NullValue", "Variable"} -> TRUE
         [] x.kind = "ListValue" ->
              /\ Len(x.values) = Len(y.values)
              /\ \A i \in 1..Len(x.values) : StructurallyEqual(x.values[i], y.values[i])
         [] x.kind = "ObjectValue" ->
              /\ NameSet(x.fields) = NameSet(y.fields)
              /\ \A i \in 1..Len(x.fields) : \A j \in 1..Len(y.fields) :
                    x.fields[i].name = y.fields[j].name =>
                        StructurallyEqual(x.fields[i].value, y.fields[j].value)
         [] OTHER -> x.value = y.value

\* C12: isValueNodeEqual returns, for every pair of value nodes, their
\* structural equality: it never raises, and it returns true exactly when
\* the two nodes are structurally equal.
C12_ReturnsStructuralEquality ==
    verdict \notin {"pending", "idle"} =>
        verdict = Bool2Eq(StructurallyEqual(lhs, rhs))

Compared == verdict \notin {"pending", "idle"} /\ converse \notin {"pending", "idle"}

MaxStatements == 2

\* export function name() {}
ExportedDeclaration(n) ==
    [kind |-> "declaration", name |-> n, elements |-> <<>>, from |-> ""]

\* an ExportSpecifier: name is the exported name, propertyName the name in
\* front of `as` ("" when there is no `as`)
ExportSpecifier(property, n) == [name |-> n, propertyName |-> property]

\* export { elements } from "specifier"
ExportFrom(elements, specifier) ==
    [kind |-> "export-from", name |-> "", elements |-> elements, from |-> specifier]

\* export * from "specifier"
ExportAllFrom(specifier) ==
    [kind |-> "export-all", name |-> "", elements |-> <<>>, from |-> specifier]

ModulePaths == {"/a.ts", "/b.ts", "/c.ts", "/d.ts"}

\* new URL(specifier.replace(/(?<!\.[jt]sx?)$/, ".ts"), referrer)
resolveModule(specifier) ==
    CASE specifier = "./b" -> "/b.ts"
      [] specifier = "./c" -> "/c.ts"
      [] specifier = "./d" -> "/d.ts"
      [] specifier = "./a" -> "/a.ts"

\* { declaration, source, name }
Declaration(path, i, n) == [source |-> path, name |-> n, declaration |-> i]

\* if (!e[name]) e[name] = []; e[name].push(...decls)
pushExports(e, n, decls) ==
    LET k == IndexOfName(e, n, 1)
    IN  IF k = 0 THEN Append(e, [name |-> n, decls |-> decls])
        ELSE [e EXCEPT ![k].decls = @ \o decls]

\* Object.assign(exports, moduleExports)
ObjectAssign(e, moduleExports) == DictPutAll(e, moduleExports, 1)

\* what the loop of 114-126 looks up in moduleExports for an element
LookedUp(element) == element.name

\* the loop of 114-126 from element i: the exports, or the name not found
RECURSIVE CopyNamed(_, _, _, _)
CopyNamed(e, elements, i, moduleExports) ==
    IF i > Len(elements) THEN [found |-> TRUE, exports |-> e, name |-> ""]
    ELSE IF ~HasName(moduleExports, LookedUp(elements[i]))
         THEN [found |-> FALSE, exports |-> e, name |-> LookedUp(elements[i])]
    ELSE CopyNamed(pushExports(e, elements[i].name,
                               DictGet(moduleExports, LookedUp(elements[i])).decls),
                   elements, i + 1, moduleExports)

EntryModule == "/a.ts"

LeafStatements == {ExportedDeclaration("foo"), ExportedDeclaration("bar")}

EntryStatements ==
    LeafStatements \cup
    {ExportAllFrom("./b"), ExportAllFrom("./c"), ExportAllFrom("./d"),
     ExportFrom(<<ExportSpecifier("foo", "bar")>>, "./d"),
     ExportFrom(<<ExportSpecifier("", "foo")>>, "./d"),
     ExportFrom(<<ExportSpecifier("foo", "bar")>>, "./b")}

\* a.ts re-exports from b.ts, c.ts and d.ts; b.ts and c.ts from d.ts
InitExports ==
    /\ \E sa \in SeqsUpTo(EntryStatements, MaxStatements) \ {<<>>} :
       \E sb \in {<<ExportAllFrom("./d")>>, <<ExportedDeclaration("foo")>>,
                  <<ExportFrom(<<ExportSpecifier("", "bar")>>, "./d")>>} :
       \E sc \in {<<ExportAllFrom("./d")>>, <<ExportedDeclaration("foo")>>,
                  <<ExportedDeclaration("bar")>>} :
       \E sd \in {<<ExportedDeclaration("foo")>>, <<ExportedDeclaration("bar")>>,
                  <<ExportedDeclaration("foo"), ExportedDeclaration("bar")>>} :
          moduleFiles = [m \in ModulePaths |->
                            CASE m = "/a.ts" -> sa [] m = "/b.ts" -> sb
                              [] m = "/c.ts" -> sc [] m = "/d.ts" -> sd]
    \* parseModule: parseSource(url), then findExports(source)
    /\ parsed = <<EntryModule>>
    /\ frames = <<[module |-> EntryModule, next |-> 1, exports |-> <<>>]>>
    /\ exportsOutcome = "running"
    /\ exportsResult = <<>>
    /\ exportsError = NoError
    /\ MergeIdle
    /\ GeneratorIdle
    /\ CommandIdle
    /\ EqualityIdle
    /\ ScalarsIdle
    /\ ResolversIdle
    /\ LookupIdle
    /\ LaterIdle

Top == frames[Len(frames)]

Caller == frames[Len(frames) - 1]

StatementOf(frame) == moduleFiles[frame.module][frame.next]

AtStatement(frame) == frame.next <= Len(moduleFiles[frame.module])

\* the frame, moved past its statement with the exports e
Advanced(frame, e) == [frame EXCEPT !.next = @ + 1, !.exports = e]

\* an exported declaration (58-100)
PushDeclaration ==
    /\ exportsOutcome = "running"
    /\ AtStatement(Top)
    /\ StatementOf(Top).kind = "declaration"
    /\ frames' = [frames EXCEPT ![Len(frames)] =
                    Advanced(Top, pushExports(Top.exports, StatementOf(Top).name,
                        <<Declaration(Top.module, Top.next, StatementOf(Top).name)>>))]
    /\ UNCHANGED <<moduleFiles, parsed, exportsOutcome, exportsResult, exportsError>>
    /\ UNCHANGED exceptExports

\* await resolveModuleFn(specifier, ..), then the call of findExports on
\* what it parsed (110-113, 143-149)
ResolveModule ==
    /\ exportsOutcome = "running"
    /\ AtStatement(Top)
    /\ StatementOf(Top).kind \in {"export-from", "export-all"}
    /\ parsed' = Append(parsed, resolveModule(StatementOf(Top).from))
    /\ frames' = Append(frames, [module |-> resolveModule(StatementOf(Top).from),
                                 next |-> 1, exports |-> <<>>])
    /\ UNCHANGED <<moduleFiles, exportsOutcome, exportsResult, exportsError>>
    /\ UNCHANGED exceptExports

Returning ==
    /\ exportsOutcome = "running"
    /\ ~AtStatement(Top)
    /\ Len(frames) > 1

Copied(r) ==
    /\ r.found
    /\ frames' = [SubSeq(frames, 1, Len(frames) - 1) EXCEPT ![Len(frames) - 1] =
                    Advanced(Caller, r.exports)]

\* the inner findExports returns to `export { .. } from`, all names found
CopyNamedExports ==
    /\ Returning
    /\ StatementOf(Caller).kind = "export-from"
    /\ Copied(CopyNamed(Caller.exports, StatementOf(Caller).elements, 1, Top.exports))
    /\ UNCHANGED <<moduleFiles, parsed, exportsOutcome, exportsResult, exportsError>>
    /\ UNCHANGED exceptExports

NotFound(r) ==
    /\ ~r.found
    /\ exportsError' = PlainError("Exported name not found",
                                  <<r.name, StatementOf(Caller).from>>)

\* ... a name is not in the module's exports (117-123)
ThrowNotFound ==
    /\ Returning
    /\ StatementOf(Caller).kind = "export-from"
    /\ NotFound(CopyNamed(Caller.exports, StatementOf(Caller).elements, 1, Top.exports))
    /\ exportsOutcome' = "thrown"
    /\ UNCHANGED <<moduleFiles, parsed, frames, exportsResult>>
    /\ UNCHANGED exceptExports

\* the inner findExports returns to `export * from` (141-150)
AssignAllExports ==
    /\ Returning
    /\ StatementOf(Caller).kind = "export-all"
    /\ frames' = [SubSeq(frames, 1, Len(frames) - 1) EXCEPT ![Len(frames) - 1] =
                    Advanced(Caller, ObjectAssign(Caller.exports, Top.exports))]
    /\ UNCHANGED <<moduleFiles, parsed, exportsOutcome, exportsResult, exportsError>>
    /\ UNCHANGED exceptExports

\* findExports of the entry module returns (305), and parseModule with it
ReturnExports ==
    /\ exportsOutcome = "running"
    /\ ~AtStatement(Top)
    /\ Len(frames) = 1
    /\ exportsResult' = Top.exports
    /\ exportsOutcome' = "returned"
    /\ UNCHANGED <<moduleFiles, parsed, frames, exportsError>>
    /\ UNCHANGED exceptExports

NextExports ==
    \/ PushDeclaration
    \/ ResolveModule
    \/ CopyNamedExports
    \/ ThrowNotFound
    \/ AssignAllExports
    \/ ReturnExports

SpecExports == InitExports /\ [][NextExports]_vars

(***************************************************************************)
(* Properties of the export tables (SpecExports)                            *)
(***************************************************************************)
ExportsFinished == exportsOutcome \in {"returned", "thrown"}

EntryStatement(i) == moduleFiles[EntryModule][i]

IsLeaf(path) ==
    \A i \in 1..Len(moduleFiles[path]) : moduleFiles[path][i].kind = "declaration"

\* the declarations of n in a module of declarations, from statement i
RECURSIVE DeclarationsFrom(_, _, _)
DeclarationsFrom(path, n, i) ==
    IF i > Len(moduleFiles[path]) THEN <<>>
    ELSE IF moduleFiles[path][i].name = n
         THEN <<Declaration(path, i, n)>> \o DeclarationsFrom(path, n, i + 1)
    ELSE DeclarationsFrom(path, n, i + 1)

\* the name `export { a as c }` reads in the module it re-exports from
SourceName(element) ==
    IF element.propertyName = "" THEN element.name ELSE element.propertyName

\* the entry module is one `export { a as c } from X` (or `export { a }
\* from X`), X being a module of declarations that declares a
OneReExport ==
    /\ Len(moduleFiles[EntryModule]) = 1
    /\ EntryStatement(1).kind = "export-from"
    /\ IsLeaf(resolveModule(EntryStatement(1).from))
    /\ DeclarationsFrom(resolveModule(EntryStatement(1).from),
                        SourceName(EntryStatement(1).elements[1]), 1) # <<>>

\* C14: `export { a as c } from X` looks a up in X and records X's
\* declarations of a under c: for a module holding
\* `export { foo as bar } from "./d"`, where ./d exports foo, findExports
\* returns a table whose entry bar holds ./d's declarations of foo.
C14_RenamedReExportResolves ==
    (ExportsFinished /\ OneReExport) =>
        /\ exportsOutcome = "returned"
        /\ exportsResult =
             <<[name |-> EntryStatement(1).elements[1].name,
                decls |-> DeclarationsFrom(resolveModule(EntryStatement(1).from),
                             SourceName(EntryStatement(1).elements[1]), 1)]>>

\* the entry module declares n in statement i and has `export * from X` in
\* statement j, X being a module of declarations that declares n
DeclaresAndExportsAll(n, i, j) ==
    /\ EntryStatement(i).kind = "declaration"
    /\ EntryStatement(i).name = n
    /\ EntryStatement(j).kind = "export-all"
    /\ IsLeaf(resolveModule(EntryStatement(j).from))
    /\ DeclarationsFrom(resolveModule(EntryStatement(j).from), n, 1) # <<>>

\* the entry module is `export * from X; export * from Y`, both modules of
\* declarations that declare n
ExportsAllTwice(n) ==
    /\ Len(moduleFiles[EntryModule]) = 2
    /\ \A j \in 1..2 :
          /\ EntryStatement(j).kind = "export-all"
          /\ IsLeaf(resolveModule(EntryStatement(j).from))
          /\ DeclarationsFrom(resolveModule(EntryStatement(j).from), n, 1) # <<>>

Holds(decls, decl) == \E k \in 1..Len(decls) : decls[k] = decl

\* C15: `export * from X` does not replace an entry the module already has
\* from a declaration of its own, and replaces an entry that came from an
\* earlier `export *`.
C15_ExportAllKeepsOwnDeclarations ==
    exportsOutcome = "returned" =>
        \A n \in {"foo", "bar"} :
            /\ \A i \in 1..Len(moduleFiles[EntryModule]) :
               \A j \in 1..Len(moduleFiles[EntryModule]) :
                  (i < j /\ DeclaresAndExportsAll(n, i, j)) =>
                      Holds(DictGet(exportsResult, n).decls, Declaration(EntryModule, i, n))
            /\ ExportsAllTwice(n) =>
                  DictGet(exportsResult, n).decls =
                      DeclarationsFrom(resolveModule(EntryStatement(2).from), n, 1)

\* C16: within one pass every module is parsed at most once, also when it
\* is reached through several re-exports.
C16_EachModuleParsedOnce ==
    \A i \in 1..Len(parsed) : \A j \in 1..Len(parsed) : i # j => parsed[i] # parsed[j]

(***************************************************************************)
(* Scalar type inference (part_005 32-210, 315-388)                         *)
(***************************************************************************)
\* a ts.TypeNode: a keyword token, a type reference (with a simple or a
\* qualified name, with or without type arguments), an import type, or
\* another kind of type node
TypeNode(kind, text, qualified, argument, typeArguments) ==
    [kind |-> kind, text |-> text, qualified |-> qualified, argument |-> argument,
     typeArguments |-> typeArguments]

KeywordType(text) == TypeNode("Keyword", text, FALSE, "", <<>>)

TypeReference(text, typeArguments) == TypeNode("TypeReference", text, FALSE, "", typeArguments)

\* a SymbolReference; "" stands for an absent property
SymbolReference(module, symbol, alias, property) ==
    [module |-> module, symbol |-> symbol, alias |-> alias, property |-> property]

\* the statements of the scalars module that type references are looked up
\* in: import { Money } from "./money"; export type Cents = number;
\* interface Hidden {}
ScalarsFile == "file:///src/scalars.ts"

ScalarsSource ==
    <<[kind |-> "ImportDeclaration", moduleSpecifier |-> "./money", name |-> "Money",
       propertyName |-> "", exported |-> FALSE],
      [kind |-> "TypeAliasDeclaration", moduleSpecifier |-> "", name |-> "Cents",
       propertyName |-> "", exported |-> TRUE],
      [kind |-> "InterfaceDeclaration", moduleSpecifier |-> "", name |-> "Hidden",
       propertyName |-> "", exported |-> FALSE]>>

\* part_005 32-63, for import("module").Qualifier
refFromImportTypeNode(node) ==
    Ok(SymbolReference(node.argument, node.text, "", ""), <<>>)

\* the loop of part_005 83-153 from statement i, then 155-156
RECURSIVE SearchStatements(_, _, _)
SearchStatements(typeName, i, warned) ==
    IF i > Len(ScalarsSource) THEN Ok(SymbolReference("", typeName, "", ""), warned)
    ELSE IF ScalarsSource[i].kind = "ImportDeclaration"
         THEN IF ScalarsSource[i].name = typeName
              THEN Ok(SymbolReference(ScalarsSource[i].moduleSpecifier,
                        IF ScalarsSource[i].propertyName = "" THEN typeName
                        ELSE ScalarsSource[i].propertyName,
                        typeName, ""), warned)
              ELSE SearchStatements(typeName, i + 1, warned)
    ELSE IF ScalarsSource[i].name = typeName
         THEN IF ~ScalarsSource[i].exported
              THEN SearchStatements(typeName, i + 1,
                       Append(warned, <<"found type but it is not exported", typeName>>))
              ELSE Ok(SymbolReference(ScalarsFile, typeName, "", ""), warned)
    ELSE SearchStatements(typeName, i + 1, warned)

RECURSIVE refFromTypeNode(_)

\* part_005 65-157
refFromTypeReferenceNode(typeNode) ==
    IF typeNode.qualified THEN Ok(Undef, <<>>)
    ELSE IF Len(typeNode.typeArguments) > 0
         THEN IF typeNode.text # "Promise"
              THEN Throw(PlainError("TODO: handle type arguments", <<>>), <<>>)
              ELSE refFromTypeNode(typeNode.typeArguments[1])
    ELSE SearchStatements(typeNode.text, 1, <<>>)

\* part_005 159-179
refFromTypeNode(typeNode) ==
    IF typeNode.kind = "ImportType" THEN refFromImportTypeNode(typeNode)
    ELSE IF typeNode.kind = "Keyword"
         THEN Ok(SymbolReference("", typeNode.text, "", ""), <<>>)
    ELSE IF typeNode.kind = "TypeReference" THEN refFromTypeReferenceNode(typeNode)
    ELSE Ok(Undef, <<<<"unexpected type node", typeNode.kind>>>>)

Mismatch(scalarName, type, newType) ==
    PlainError("mismatched types do not match for scalar",
               <<scalarName, type.symbol, newType.symbol>>)

RECURSIVE reconcileFrom(_, _, _, _, _)

\* the body of the loop of part_005 187-207 for the reference r of typeDecls[i]
Reconciled(scalarName, typeDecls, i, type, warned, r) ==
    IF ~IsOk(r) THEN Throw(r.error, warned \o r.warnings)
    ELSE IF ~IsUndef(type) /\ ~IsUndef(r.value)
         THEN IF \/ type.symbol # r.value.symbol
                 \/ type.alias # r.value.alias
                 \/ type.module # r.value.module
                 \/ type.property # r.value.property
              THEN Throw(Mismatch(scalarName, type, r.value), warned \o r.warnings)
              ELSE reconcileFrom(scalarName, typeDecls, i + 1, type, warned \o r.warnings)
    ELSE IF IsUndef(type) /\ ~IsUndef(r.value)
         THEN reconcileFrom(scalarName, typeDecls, i + 1, r.value, warned \o r.warnings)
    ELSE reconcileFrom(scalarName, typeDecls, i + 1, type, warned \o r.warnings)

reconcileFrom(scalarName, typeDecls, i, type, warned) ==
    IF i > Len(typeDecls) THEN Ok(type, warned)
    ELSE IF IsUndef(typeDecls[i])
         THEN reconcileFrom(scalarName, typeDecls, i + 1, type, warned)
    ELSE Reconciled(scalarName, typeDecls, i, type, warned, refFromTypeNode(typeDecls[i]))

\* part_005 181-210
reconcileScalarType(scalarName, typeDecls) ==
    reconcileFrom(scalarName, typeDecls, 1, Undef, <<>>)

\* new URL(type.module, source.fileName).toString()
AbsoluteModule(module) == IF module = "./money" THEN "file:///src/money" ELSE module

\* part_005 375-379
WithAbsoluteModule(type) ==
    IF IsUndef(type) \/ type.module = "" THEN type
    ELSE [type EXCEPT !.module = AbsoluteModule(@)]

\* part_005 361-374: the exported type alias of the scalar's name when there
\* is one (scalarTypeNodes[name], 336-347), else what the declared return
\* types of parseValue and parseLiteral reconcile to
ScalarTypeOf(binding) ==
    IF ~IsUndef(binding.typeAlias)
    THEN Ok(SymbolReference(ScalarsFile, binding.name, "", ""), <<>>)
    ELSE reconcileScalarType(binding.name, <<binding.parseValue, binding.parseLiteral>>)

\* the declared return types a parseValue or parseLiteral function can have:
\* none, string, Date, Money, import("./money").Money, Promise<string>,
\* Array<string>, string | null, ns.T, Cents, Hidden
ReturnTypes ==
    {Undef, KeywordType("string"), TypeReference("Date", <<>>),
     TypeReference("Money", <<>>), TypeNode("ImportType", "Money", FALSE, "./money", <<>>),
     TypeReference("Promise", <<KeywordType("string")>>),
     TypeReference("Array", <<KeywordType("string")>>),
     TypeNode("UnionType", "", FALSE, "", <<>>),
     TypeNode("TypeReference", "", TRUE, "", <<>>),
     TypeReference("Cents", <<>>), TypeReference("Hidden", <<>>)}

\* export const Name = { parseValue(..): T { .. }, parseLiteral(..): U { .. } }
\* and, possibly, export type Name = number
ScalarBinding(n, parseValue, parseLiteral, typeAlias) ==
    [name |-> n, parseValue |-> parseValue, parseLiteral |-> parseLiteral,
     typeAlias |-> typeAlias]

ScalarBindingsOf(n) ==
    {ScalarBinding(n, pv, pl, ta) :
        pv \in ReturnTypes, pl \in ReturnTypes, ta \in {Undef, KeywordType("number")}}

\* a module that exports the scalar Date, or the scalars Date and Money
InitScalars ==
    /\ scalarExports \in
          {<<d>> : d \in ScalarBindingsOf("Date")} \cup
          {<<d, m>> : d \in ScalarBindingsOf("Date"),
                      m \in {ScalarBinding("Money", TypeReference("Money", <<>>), pl, Undef) :
                                pl \in ReturnTypes}}
    /\ scalarIndex = 1
    /\ infos = <<>>
    /\ scalarLog = <<>>
    /\ scalarOutcome = "running"
    /\ scalarError = NoError
    /\ MergeIdle
    /\ GeneratorIdle
    /\ CommandIdle
    /\ EqualityIdle
    /\ ExportsIdle
    /\ ResolversIdle
    /\ LookupIdle
    /\ LaterIdle

Inferred(binding, r) ==
    /\ IsOk(r)
    /\ infos' = Append(infos, [name |-> binding.name, type |-> WithAbsoluteModule(r.value)])
    /\ scalarLog' = scalarLog \o r.warnings
    /\ scalarIndex' = scalarIndex + 1

\* an iteration of the loop of part_005 353-385 that ends normally
InferScalarType ==
    /\ scalarOutcome = "running"
    /\ scalarIndex <= Len(scalarExports)
    /\ Inferred(scalarExports[scalarIndex], ScalarTypeOf(scalarExports[scalarIndex]))
    /\ UNCHANGED <<scalarExports, scalarOutcome, scalarError>>
    /\ UNCHANGED exceptScalars

InferenceThrew(r) ==
    /\ ~IsOk(r)
    /\ scalarError' = r.error
    /\ scalarLog' = scalarLog \o r.warnings
    /\ scalarOutcome' = "thrown"

\* an iteration that throws
ThrowFromScalar ==
    /\ scalarOutcome = "running"
    /\ scalarIndex <= Len(scalarExports)
    /\ InferenceThrew(ScalarTypeOf(scalarExports[scalarIndex]))
    /\ UNCHANGED <<scalarExports, scalarIndex, infos>>
    /\ UNCHANGED exceptScalars

\* return infos (part_005 387)
ReturnInfos ==
    /\ scalarOutcome = "running"
    /\ scalarIndex > Len(scalarExports)
    /\ scalarOutcome' = "returned"
    /\ UNCHANGED <<scalarExports, scalarIndex, infos, scalarLog, scalarError>>
    /\ UNCHANGED exceptScalars

NextScalars == InferScalarType \/ ThrowFromScalar \/ ReturnInfos

SpecScalars == InitScalars /\ [][NextScalars]_vars

\* the type a declared return type resolves to, Undef when it is absent or
\* does not resolve
Resolved(r) == IF IsOk(r) THEN r.value ELSE Undef

ResolvedType(typeNode) == IF IsUndef(typeNode) THEN Undef ELSE Resolved(refFromTypeNode(typeNode))

SameType(x, y) ==
    /\ x.module = y.module
    /\ x.symbol = y.symbol
    /\ x.property = y.property

Ambiguous(pv, pl) == ~IsUndef(pv) /\ ~IsUndef(pl) /\ ~SameType(pv, pl)

MustFail(binding) ==
    Ambiguous(ResolvedType(binding.parseValue), ResolvedType(binding.parseLiteral))

FirstResolved(pv, pl) == IF ~IsUndef(pv) THEN pv ELSE pl

InferredAsClaimed(binding, info) ==
    /\ ~MustFail(binding)
    /\ info.name = binding.name
    /\ IF IsUndef(FirstResolved(ResolvedType(binding.parseValue),
                                ResolvedType(binding.parseLiteral)))
       THEN IsUndef(info.type)
       ELSE /\ ~IsUndef(info.type)
            /\ SameType(info.type,
                   WithAbsoluteModule(FirstResolved(ResolvedType(binding.parseValue),
                                                    ResolvedType(binding.parseLiteral))))

\* C17: when the declared return types of parseValue and parseLiteral both
\* resolve they must name the same type (module, symbol, property) or the
\* analysis fails; when one resolves it is the scalar's type; when none does
\* the type is unknown; and the analysis fails in no other case.
C17_ScalarTypeReconciled ==
    /\ scalarOutcome = "thrown" => MustFail(scalarExports[scalarIndex])
    /\ \A i \in 1..Len(infos) : InferredAsClaimed(scalarExports[i], infos[i])

(***************************************************************************)
(* The resolve property of a field (generate.ts 256-344, SpecLookup)        *)
(***************************************************************************)
\* the type User and the interfaces it can implement
OwnerName == "User"

InterfaceNames == {"Node", "Entity"}

FieldNames == {"id", "name"}

FieldDirectiveNames == {"auth", "upper", "log"}

\* the directives applied to one field
MaxDirectives == 3

\* the binding a resolvers module of a type exports for a field
BindingOf(typeName, fieldName) == Reference("/resolvers/" \o typeName \o ".ts", Sym(fieldName))

DirectiveBindingOf(directiveName) == Reference("/directives.ts", Sym(directiveName))

\* this._resolversInfo: per type name and field name a binding or undefined
ResolversInfos ==
    {[n \in {OwnerName} \cup InterfaceNames |->
        [f \in FieldNames |-> IF <<n, f>> \in bound THEN BindingOf(n, f) ELSE Undef]] :
            bound \in SUBSET (({OwnerName} \cup InterfaceNames) \X FieldNames)}

\* the interfaces a type declares, in the order of the declaration
InterfaceLists == {<<>>, <<"Node">>, <<"Entity">>, <<"Node", "Entity">>, <<"Entity", "Node">>}

\* @auth(role: ADMIN), @upper, @log(level: 2)
FieldDirective(n) ==
    [name |-> n,
     arguments |-> IF n = "auth" THEN <<ArgumentNode("role", ScalarValueNode("EnumValue", "ADMIN"))>>
                   ELSE IF n = "log" THEN <<ArgumentNode("level", ScalarValueNode("IntValue", "2"))>>
                   ELSE <<>>]

\* the directives on the definition of the field, each at most once
DirectiveLists ==
    {[i \in DOMAIN s |-> FieldDirective(s[i])] :
        s \in {q \in SeqsUpTo(FieldDirectiveNames, MaxDirectives) :
                  \A i \in DOMAIN q : \A j \in DOMAIN q : q[i] = q[j] => i = j}}

\* a GraphQLObjectType or a GraphQLInterfaceType with its getInterfaces()
OwnerType(kind, interfaces) == [kind |-> kind, name |-> OwnerName, interfaces |-> interfaces]

\* a field without arguments
Field(n, directives) == [name |-> n, directives |-> directives]

InitLookup ==
    /\ resolversInfo \in ResolversInfos
    /\ fieldDirectivesInfo \in
          {[d \in FieldDirectiveNames |-> IF d \in bound THEN DirectiveBindingOf(d) ELSE Undef] :
              bound \in SUBSET FieldDirectiveNames}
    /\ fieldOwner \in {OwnerType(kind, is) :
                          kind \in {"GraphQLObjectType", "GraphQLInterfaceType"},
                          is \in InterfaceLists}
    /\ fieldNode \in {Field("id", ds) : ds \in DirectiveLists}
    /\ fieldObject = <<>>
    /\ MergeIdle
    /\ GeneratorIdle
    /\ CommandIdle
    /\ EqualityIdle
    /\ ExportsIdle
    /\ ScalarsIdle
    /\ ResolversIdle
    /\ LaterIdle

\* the loop of generate.ts 267-271 from interface i
RECURSIVE InterfaceResolver(_, _, _, _)
InterfaceResolver(info, interfaces, fieldName, i) ==
    IF i > Len(interfaces) THEN Undef
    ELSE IF ~IsUndef(info[interfaces[i]][fieldName]) THEN info[interfaces[i]][fieldName]
    ELSE InterfaceResolver(info, interfaces, fieldName, i + 1)

\* generate.ts 264-272
resolverOf(info, type, f) ==
    IF type.kind = "GraphQLObjectType" /\ IsUndef(info[type.name][f.name])
    THEN InterfaceResolver(info, type.interfaces, f.name, 1)
    ELSE info[type.name][f.name]

\* source => source
IdentityResolveFn(f) == [fn |-> Sym("source"), applied |-> <<>>]

\* source => source.f (generate.ts 284-286)
DefaultResolveFn(f) == [fn |-> Sym("source." \o f.name), applied |-> <<>>]

\* just-pascal-case on the names of the directives
pascalCase(n) ==
    IF n = "auth" THEN "Auth" ELSE IF n = "upper" THEN "Upper" ELSE IF n = "log" THEN "Log" ELSE n

\* renderSymbolReference(pkgs, ref, alias): alias ?? ref.alias is alias
renderSymbolReferenceAs(reg, ref, alias) ==
    IF ref.module # "" THEN addRequires(reg, ref.module, ref.symbol, alias)
    ELSE [pkgs |-> reg, symbol |-> ref.symbol]

\* generate.ts 221-245, for the kinds without parts
renderValueNode(node) ==
    IF node.kind \in {"EnumValue", "StringValue", "BooleanValue"} THEN [lit |-> node.value]
    ELSE IF node.kind \in {"IntValue", "FloatValue"} THEN [id |-> node.value]
    ELSE [id |-> "null"]

\* generate.ts 247-254
renderArgumentNodes(nodes) ==
    [obj |-> [i \in 1..Len(nodes) |->
                 [name |-> nodes[i].name, value |-> renderValueNode(nodes[i].value)]]]

\* the arguments of the call of line 288-290 after resolveFn
CallArguments(directive) ==
    IF Len(directive.arguments) > 0 THEN <<renderArgumentNodes(directive.arguments)>> ELSE <<>>

\* directive(resolveFn, ..) with the identifier rendered for the directive
Applied(rendering, directive, resolveFn, f) ==
    [pkgs |-> rendering.pkgs,
     resolveFn |-> [(IF IsUndef(resolveFn) THEN DefaultResolveFn(f) ELSE resolveFn)
                        EXCEPT !.applied =
                            Append(@, [callee |-> rendering.symbol,
                                       arguments |-> CallArguments(directive)])]]

\* `apply${pascalCase(directive.name.value)}FieldDirective`
ApplyAlias(directive) == Sym("apply" \o pascalCase(directive.name) \o "FieldDirective")

\* the loop of generate.ts 277-291: the directives from i down to the first
RECURSIVE ApplyFieldDirectives(_, _, _, _, _)

ApplyFrom(r, directivesInfo, f, i) ==
    ApplyFieldDirectives(r.pkgs, r.resolveFn, directivesInfo, f, i)

ApplyFieldDirectives(reg, resolveFn, directivesInfo, f, i) ==
    IF i < 1 THEN [pkgs |-> reg, resolveFn |-> resolveFn]
    ELSE IF IsUndef(directivesInfo[f.directives[i].name])
         THEN ApplyFieldDirectives(reg, resolveFn, directivesInfo, f, i - 1)
    ELSE ApplyFrom(Applied(renderSymbolReferenceAs(reg, directivesInfo[f.directives[i].name],
                                                   ApplyAlias(f.directives[i])),
                           f.directives[i], resolveFn, f), directivesInfo, f, i - 1)

\* generate.ts 274, for the registry and the resolver found
RenderedResolver(reg, resolver) ==
    IF IsUndef(resolver) THEN [pkgs |-> reg, resolveFn |-> Undef]
    ELSE [pkgs |-> renderSymbolReference(reg, resolver).pkgs,
          resolveFn |-> [fn |-> renderSymbolReference(reg, resolver).symbol,
                         applied |-> <<>>]]

\* the rendering when the directives are applied first to last
renderFieldObjectInDeclaredOrder(reg, info, directivesInfo, type, f) ==
    ApplyFrom(RenderedResolver(reg, resolverOf(info, type, f)), directivesInfo,
              [f EXCEPT !.directives = [i \in 1..Len(@) |-> @[Len(@) + 1 - i]]],
              Len(f.directives))

\* generate.ts 264-292 and 340: the registry afterwards and the properties
\* of the object; the field has no arguments (295-319 change nothing) and
\* the type is not Subscription (328)
renderFieldObject(reg, info, directivesInfo, type, f) ==
    ApplyFrom(RenderedResolver(reg, resolverOf(info, type, f)), directivesInfo, f,
              Len(f.directives))

Rendered(r) ==
    /\ pkgs' = r.pkgs
    /\ fieldObject' = IF IsUndef(r.resolveFn) THEN [type |-> "ID"]
                      ELSE [type |-> "ID", resolve |-> r.resolveFn]

\* this._renderFieldObject(type, f, ..) on a new context
RenderFieldObject ==
    /\ fieldObject = <<>>
    /\ ~IsUndef(fieldOwner)
    /\ Rendered(renderFieldObject(pkgs, resolversInfo, fieldDirectivesInfo, fieldOwner,
                                  fieldNode))
    /\ UNCHANGED <<resolversInfo, fieldDirectivesInfo, fieldOwner, fieldNode>>
    /\ UNCHANGED <<calls, schemaTypes, scalarsInfo, extMode, outputs>>
    /\ UNCHANGED <<mergeVars, commandVars, equalityVars, exportsVars, scalarVars, resolverVars,
                   laterVars>>

NextLookup == RenderFieldObject

SpecLookup == InitLookup /\ [][NextLookup]_vars

\* the binding the precedence names: the direct one, else the one of the
\* first declared interface that has one, else none
DirectBinding == resolversInfo[fieldOwner.name][fieldNode.name]

BindingInterfaces ==
    {i \in 1..Len(fieldOwner.interfaces) :
        ~IsUndef(resolversInfo[fieldOwner.interfaces[i]][fieldNode.name])}

FirstBindingInterface == CHOOSE i \in BindingInterfaces : \A j \in BindingInterfaces : i <= j

PrecedenceBinding ==
    IF ~IsUndef(DirectBinding) THEN DirectBinding
    ELSE IF BindingInterfaces # {}
         THEN resolversInfo[fieldOwner.interfaces[FirstBindingInterface]][fieldNode.name]
    ELSE Undef

HasResolve == "resolve" \in DOMAIN fieldObject

\* the resolve property is the identifier imported for the binding
ResolvesWith(binding) ==
    /\ HasResolve
    /\ fieldObject.resolve.fn \in DOMAIN pkgs.symbols
    /\ pkgs.symbols[fieldObject.resolve.fn] = binding.module
    /\ fieldObject.resolve.fn = binding.symbol

\* no binding is rendered: there is no resolve property, or it is the
\* property read that the bound directives of the field wrap
ResolvesWithoutBinding ==
    HasResolve => fieldObject.resolve.fn = DefaultResolveFn(fieldNode).fn

\* C18: the field of an object or interface type is rendered with the direct
\* binding when there is one, else with the binding of the first interface,
\* in declared order, that has one, else without a binding.
C18_ResolverLookupPrecedence ==
    fieldObject # <<>> =>
        IF IsUndef(PrecedenceBinding) THEN ResolvesWithoutBinding
        ELSE ResolvesWith(PrecedenceBinding)

(***************************************************************************)
(* parseTypeResolvers over the files of one type (resolvers.ts 34-58,       *)
(* SpecResolvers)                                                           *)
(***************************************************************************)
\* the names one resolver file exports
MaxExports == 2

\* parse passes `file + "/*.ts"` for a sub-directory and the file itself for
\* a file (resolvers.ts 78, 80)
DirectoryGlob == "/resolvers/User/*.ts"

FileGlob == "/resolvers/User.ts"

\* typeof glob === 'string' && glob.endsWith('/*.ts')
EndsWithAllTs(glob) == glob = DirectoryGlob

ResolverExportNames == {"default", "id", "name"}

\* Object.entries(await parseResolverFile(fullpath)): the exported functions
\* of the file, each name once (resolvers.ts 9-32)
ResolverEntries(fullpath) ==
    {[i \in 1..Len(names) |-> [name |-> names[i], module |-> fullpath, symbol |-> names[i]]] :
        names \in {s \in SeqsUpTo(ResolverExportNames, MaxExports) :
                      \A i \in DOMAIN s : \A j \in DOMAIN s : s[i] = s[j] => i = j}}

\* a file globIterate yields; base is basename(fullpath, extname(fullpath))
ResolverFilesOf(fullpath, base) ==
    {[fullpath |-> fullpath, base |-> base, entries |-> es] : es \in ResolverEntries(fullpath)}

\* the files of /resolvers/User/ in an order globIterate can yield them, or
\* the single file /resolvers/User.ts
InitResolvers ==
    /\ \/ /\ globPattern = DirectoryGlob
          /\ resolverFiles \in
                {<<a>> : a \in ResolverFilesOf("/resolvers/User/id.ts", "id")} \cup
                {<<a, b>> : a \in ResolverFilesOf("/resolvers/User/id.ts", "id"),
                            b \in ResolverFilesOf("/resolvers/User/name.ts", "name")} \cup
                {<<b, a>> : a \in ResolverFilesOf("/resolvers/User/id.ts", "id"),
                            b \in ResolverFilesOf("/resolvers/User/name.ts", "name")}
       \/ /\ globPattern = FileGlob
          /\ resolverFiles \in {<<a>> : a \in ResolverFilesOf("/resolvers/User.ts", "User")}
    /\ fileIndex = 1
    /\ entryIndex = 1
    /\ resolverResult = <<>>
    /\ resolverLog = <<>>
    /\ resolverOutcome = "running"
    /\ resolverError = NoError
    /\ MergeIdle
    /\ GeneratorIdle
    /\ CommandIdle
    /\ EqualityIdle
    /\ ExportsIdle
    /\ ScalarsIdle
    /\ LookupIdle
    /\ LaterIdle

\* resolvers.ts 41-44
RealName(glob, file, name) ==
    IF name = "default" /\ EndsWithAllTs(glob) THEN file.base ELSE name

\* the template literal of line 48 reads result[name].module
DuplicateResolverWarning(file, name, previous) ==
    [text |-> "Duplicate resolver name", name |-> name, fullpath |-> file.fullpath,
     module |-> previous.module]

\* result[realName] = reference (line 52)
Bound(realName, reference) ==
    [name |-> realName, module |-> reference.module, symbol |-> reference.symbol]

AtEntry ==
    /\ resolverOutcome = "running"
    /\ fileIndex <= Len(resolverFiles)
    /\ entryIndex <= Len(resolverFiles[fileIndex].entries)

\* the entry the inner loop is at
CurrentEntry == resolverFiles[fileIndex].entries[entryIndex]

CurrentRealName == RealName(globPattern, resolverFiles[fileIndex], CurrentEntry.name)

\* an iteration of the loop of line 40 that ends normally
RegisterResolver ==
    /\ AtEntry
    /\ HasName(resolverResult, CurrentRealName) => HasName(resolverResult, CurrentEntry.name)
    /\ resolverLog' =
          IF HasName(resolverResult, CurrentRealName)
          THEN Append(resolverLog,
                      DuplicateResolverWarning(resolverFiles[fileIndex], CurrentEntry.name,
                                               DictGet(resolverResult, CurrentEntry.name)))
          ELSE resolverLog
    /\ resolverResult' = DictSet(resolverResult, Bound(CurrentRealName, CurrentEntry))
    /\ entryIndex' = entryIndex + 1
    /\ UNCHANGED <<globPattern, resolverFiles, fileIndex, resolverOutcome, resolverError>>
    /\ UNCHANGED exceptResolvers

\* an iteration in which result[name] of line 48 is undefined
ThrowFromWarning ==
    /\ AtEntry
    /\ HasName(resolverResult, CurrentRealName)
    /\ ~HasName(resolverResult, CurrentEntry.name)
    /\ resolverError' = TypeError
    /\ resolverOutcome' = "thrown"
    /\ UNCHANGED <<globPattern, resolverFiles, fileIndex, entryIndex, resolverResult,
                   resolverLog>>
    /\ UNCHANGED exceptResolvers

\* the entries of a file are done: the loop of line 37 takes the next file
NextFile ==
    /\ resolverOutcome = "running"
    /\ fileIndex <= Len(resolverFiles)
    /\ entryIndex > Len(resolverFiles[fileIndex].entries)
    /\ fileIndex' = fileIndex + 1
    /\ entryIndex' = 1
    /\ UNCHANGED <<globPattern, resolverFiles, resolverResult, resolverLog, resolverOutcome,
                   resolverError>>
    /\ UNCHANGED exceptResolvers

\* return result (line 57)
ReturnResolvers ==
    /\ resolverOutcome = "running"
    /\ fileIndex > Len(resolverFiles)
    /\ resolverOutcome' = "returned"
    /\ UNCHANGED <<globPattern, resolverFiles, fileIndex, entryIndex, resolverResult,
                   resolverLog, resolverError>>
    /\ UNCHANGED exceptResolvers

NextResolvers == RegisterResolver \/ ThrowFromWarning \/ NextFile \/ ReturnResolvers

SpecResolvers == InitResolvers /\ [][NextResolvers]_vars

\* the registrations in the order of the loops: file, entry
Registrations ==
    {p \in (1..Len(resolverFiles)) \X (1..MaxExports) :
        p[2] <= Len(resolverFiles[p[1]].entries)}

Before(p, q) == p[1] < q[1] \/ (p[1] = q[1] /\ p[2] < q[2])

RegisteredName(p) ==
    RealName(globPattern, resolverFiles[p[1]], resolverFiles[p[1]].entries[p[2]].name)

\* p registers a name that an earlier registration has registered
IsDuplicate(p) == \E q \in Registrations : Before(q, p) /\ RegisteredName(q) = RegisteredName(p)

FirstRegistration(n) ==
    CHOOSE p \in Registrations :
        /\ RegisteredName(p) = n
        /\ \A q \in Registrations : RegisteredName(q) = n => ~Before(q, p)

WarnedAbout(p) ==
    \E i \in 1..Len(resolverLog) :
        /\ resolverLog[i].fullpath = resolverFiles[p[1]].fullpath
        /\ resolverLog[i].module =
              resolverFiles[FirstRegistration(RegisteredName(p))[1]].fullpath

\* C19: when several files of a type sub-directory export a resolver for the
\* same field name, the returned table keeps the binding registered first
\* and a warning names the later file and the file of the first binding.
C19_FirstRegisteredResolverKept ==
    (resolverOutcome = "returned" /\ globPattern = DirectoryGlob) =>
        \A p \in Registrations :
            /\ HasName(resolverResult, RegisteredName(p))
            /\ DictGet(resolverResult, RegisteredName(p)).module =
                  resolverFiles[FirstRegistration(RegisteredName(p))[1]].fullpath
            /\ IsDuplicate(p) => WarnedAbout(p)

\* C20: a duplicate resolver name never aborts the analysis:
\* parseTypeResolvers does not throw, and when it has returned the table
\* holds a binding for every name that was registered.
C20_DuplicateNeverAborts ==
    /\ resolverOutcome # "thrown"
    /\ resolverOutcome = "returned" =>
          \A p \in Registrations : HasName(resolverResult, RegisteredName(p))

(***************************************************************************)
(* The directives around the resolver of a field (SpecLookup)               *)
(***************************************************************************)
\* the import of local name `local` binds it to the export of the reference
ImportedAs(local, ref) ==
    /\ local \in DOMAIN pkgs.symbols
    /\ pkgs.symbols[local] = ref.module
    /\ (IF local \in DOMAIN pkgs.aliases THEN pkgs.aliases[local] ELSE local) = ref.symbol

IsBoundDirective(directive) == ~IsUndef(fieldDirectivesInfo[directive.name])

\* the directives of the field that have a binding, in declared order
BoundDirectives == SelectSeq(fieldNode.directives, IsBoundDirective)

\* the k-th application, counted from the resolver outwards, is the one of
\* directive d with d's own arguments
AppliesDirective(application, d) ==
    /\ ImportedAs(application.callee, fieldDirectivesInfo[d.name])
    /\ application.arguments =
          IF d.arguments = <<>> THEN <<>> ELSE <<renderArgumentNodes(d.arguments)>>

\* the applications, innermost first, are the bound directives in the
\* reverse of the declared order
WrappedInReverseOrder ==
    /\ Len(fieldObject.resolve.applied) = Len(BoundDirectives)
    /\ \A k \in 1..Len(BoundDirectives) :
          AppliesDirective(fieldObject.resolve.applied[k],
                           BoundDirectives[Len(BoundDirectives) + 1 - k])

\* the resolver r the lookup of lines 264-272 finds for the field
FoundResolver == resolverOf(resolversInfo, fieldOwner, fieldNode)

\* C21: for a field with a bound resolver r and directives d1..dn, the
\* resolve expression is d1(d2(..dn(r))) over the directives that have a
\* binding, each with its own arguments; unbound directives are skipped.
C21_DirectivesWrapInReverseOrder ==
    (fieldObject # <<>> /\ ~IsUndef(FoundResolver)) =>
        /\ ResolvesWith(FoundResolver)
        /\ WrappedInReverseOrder

\* a resolver wrapped by two bound directives around a skipped unbound one
C21_Witness ==
    /\ fieldObject # <<>>
    /\ ~IsUndef(DirectBinding)
    /\ Len(fieldNode.directives) = 3
    /\ IsBoundDirective(fieldNode.directives[1])
    /\ ~IsBoundDirective(fieldNode.directives[2])
    /\ IsBoundDirective(fieldNode.directives[3])
    /\ Len(fieldObject.resolve.applied) = 2

\* the resolve property is the identifier of the binding alone, and the
\* file imports nothing but the binding
ReferencesExactly(binding) ==
    /\ ResolvesWith(binding)
    /\ ImportedAs(fieldObject.resolve.fn, binding)
    /\ fieldObject.resolve.applied = <<>>
    /\ DOMAIN pkgs.symbols = {fieldObject.resolve.fn}

\* the resolve property is d(source => source.f, ..) for the directive d
WrapsPassThrough(d) ==
    /\ HasResolve
    /\ fieldObject.resolve.fn = Sym("source." \o fieldNode.name)
    /\ fieldObject.resolve.fn \notin DOMAIN pkgs.symbols
    /\ Len(fieldObject.resolve.applied) = 1
    /\ AppliesDirective(fieldObject.resolve.applied[1], d)

InputTypeNames == {"Filter", "Human", "Money", "User"}

\* an input field: its name, the name of its named type, its directives
InputField(n, typeName, directives) ==
    [name |-> n, type |-> typeName, directives |-> directives]

\* input T { text: String @trim?  next: String | <one of the input types> }
InputObjectTypesAmong(n, names) ==
    {[name |-> n,
      fields |-> <<InputField("text", "String", ds), InputField("next", nt, <<>>)>>] :
        ds \in {<<>>, <<"trim">>}, nt \in {"String"} \cup names}

InputObjectTypes(n) == InputObjectTypesAmong(n, InputTypeNames)

\* the schemas with three of the types
SmallerSchemas ==
    {<<u, f, m>> : u \in InputObjectTypesAmong("User", {"Filter", "Money", "User"}),
                   f \in InputObjectTypesAmong("Filter", {"Filter", "Money", "User"}),
                   m \in InputObjectTypesAmong("Money", {"Filter", "Money", "User"})}

\* options.inputDirectivesInfo: left out, or with a binding for @trim or none
InputDirectivesInfos ==
    {Undef, [trim |-> Undef], [trim |-> Reference("/directives/input.ts", Sym("trim"))]}

\* Object.entries(schema.getTypeMap()).sort(compareEntryKey)... (1091-1094):
\* the keys of the type map are distinct, so the type at position i is the
\* one with i - 1 names before its own
SortedTypes(types) ==
    [i \in 1..Len(types) |->
        types[CHOOSE k \in 1..Len(types) :
                 Cardinality({j \in 1..Len(types) :
                     LocaleCompare(types[j].name, types[k].name) < 0}) = i - 1]]

\* nothing has been called yet
InitPrepare == PrepareIdle /\ EarlierIdle /\ CastIdle /\ RefsIdle

\* the call with one of the schemas, up to the sort of line 1091
CalledWith(schemas) ==
    /\ inputTypes' \in schemas
    /\ inputDirectivesInfo' \in InputDirectivesInfos
    /\ sortedTypes' = SortedTypes(inputTypes')
    /\ prepareStep' = "types"
    /\ UNCHANGED <<typeCursor, typesWithObjectFields, newTypesWithObjectFields, entryCursor,
                   changes, inputFieldDirectives, transforms>>
    /\ UNCHANGED exceptPrepare

IsInputObjectType(types, n) == HasName(types, n)

\* the triples a type adds to typesWithObjectFields (1105-1108)
RECURSIVE ObjectFieldsFrom(_, _, _)
ObjectFieldsFrom(types, type, i) ==
    IF i > Len(type.fields) THEN <<>>
    ELSE (IF IsInputObjectType(types, type.fields[i].type)
          THEN <<<<type.name, type.fields[i].name, type.fields[i].type>>>>
          ELSE <<>>) \o ObjectFieldsFrom(types, type, i + 1)

\* inputFieldDirectives[typeName]?.[fieldName] with ?? {} and ?? []
DirectivesOfField(table, typeName, fieldName) ==
    IF typeName \in DOMAIN table /\ fieldName \in DOMAIN table[typeName]
    THEN table[typeName][fieldName] ELSE <<>>

FieldsOfType(table, typeName) == IF typeName \in DOMAIN table THEN table[typeName] ELSE <<>>

\* lines 1121-1123: fieldDirective.push(name)
PushFieldDirective(table, typeName, fieldName, directive) ==
    Put(table, typeName,
        Put(FieldsOfType(table, typeName), fieldName,
            Append(DirectivesOfField(table, typeName, fieldName), directive)))

\* the loop of lines 1115-1124 over the directives of a field, from j
RECURSIVE PushBoundDirectives(_, _, _, _, _)
PushBoundDirectives(table, info, type, field, j) ==
    IF j > Len(field.directives) THEN table
    ELSE IF IsUndef(info[field.directives[j]])
         THEN PushBoundDirectives(table, info, type, field, j + 1)
    ELSE PushBoundDirectives(PushFieldDirective(table, type.name, field.name,
                                                field.directives[j]),
                             info, type, field, j + 1)

\* the loop of lines 1105-1125 over the fields of a type, from i
RECURSIVE CollectFieldDirectives(_, _, _, _)
CollectFieldDirectives(table, info, type, i) ==
    IF i > Len(type.fields) THEN table
    ELSE CollectFieldDirectives(PushBoundDirectives(table, info, type, type.fields[i], 1),
                                info, type, i + 1)

\* options.inputDirectivesInfo is not given: lines 1097-1142 are skipped
SkipInputDirectives ==
    /\ prepareStep = "types"
    /\ IsUndef(inputDirectivesInfo)
    /\ prepareStep' = "returned"
    /\ UNCHANGED <<inputTypes, inputDirectivesInfo, sortedTypes,
                   typeCursor, typesWithObjectFields,
                   newTypesWithObjectFields, entryCursor, changes, inputFieldDirectives,
                   transforms>>
    /\ UNCHANGED exceptPrepare

\* an iteration of the loop of line 1100
CollectType ==
    /\ prepareStep = "types"
    /\ ~IsUndef(inputDirectivesInfo)
    /\ typeCursor <= Len(sortedTypes)
    /\ typesWithObjectFields' =
          typesWithObjectFields \o
          ObjectFieldsFrom(sortedTypes, sortedTypes[typeCursor], 1)
    /\ inputFieldDirectives' =
          CollectFieldDirectives(inputFieldDirectives, inputDirectivesInfo,
                                 sortedTypes[typeCursor], 1)
    /\ typeCursor' = typeCursor + 1
    /\ UNCHANGED <<inputTypes, inputDirectivesInfo, sortedTypes,
                   prepareStep, newTypesWithObjectFields,
                   entryCursor, changes, transforms>>
    /\ UNCHANGED exceptPrepare

\* for (let changes = 1; ..: the initialisation of the loop of line 1128
StartPropagation ==
    /\ prepareStep = "types"
    /\ ~IsUndef(inputDirectivesInfo)
    /\ typeCursor > Len(sortedTypes)
    /\ changes' = 1
    /\ prepareStep' = "test"
    /\ UNCHANGED <<inputTypes, inputDirectivesInfo, sortedTypes,
                   typeCursor, typesWithObjectFields,
                   newTypesWithObjectFields, entryCursor, inputFieldDirectives, transforms>>
    /\ UNCHANGED exceptPrepare

\* ..; changes; ..: the test of the loop holds, a pass begins (1129)
BeginPass ==
    /\ prepareStep = "test"
    /\ changes # 0
    /\ newTypesWithObjectFields' = <<>>
    /\ entryCursor' = 1
    /\ prepareStep' = "pass"
    /\ UNCHANGED <<inputTypes, inputDirectivesInfo, sortedTypes,
                   typeCursor, typesWithObjectFields,
                   changes, inputFieldDirectives, transforms>>
    /\ UNCHANGED exceptPrepare

\* the triple the pass is at
CurrentTriple == typesWithObjectFields[entryCursor]

\* { ...inputFieldDirectives[typeName], [fieldName]: [] } (1133)
MarkedThrough(table, typeName, fieldName) ==
    Put(table, typeName, Put(FieldsOfType(table, typeName), fieldName, <<>>))

\* an iteration of the loop of line 1130
CheckTriple ==
    /\ prepareStep = "pass"
    /\ entryCursor <= Len(typesWithObjectFields)
    /\ IF CurrentTriple[3] \in DOMAIN inputFieldDirectives
       THEN /\ inputFieldDirectives' =
                  MarkedThrough(inputFieldDirectives, CurrentTriple[1], CurrentTriple[2])
            /\ changes' = changes + 1
            /\ UNCHANGED newTypesWithObjectFields
       ELSE /\ newTypesWithObjectFields' = Append(newTypesWithObjectFields, CurrentTriple)
            /\ UNCHANGED <<inputFieldDirectives, changes>>
    /\ entryCursor' = entryCursor + 1
    /\ UNCHANGED <<inputTypes, inputDirectivesInfo, sortedTypes,
                   prepareStep, typeCursor,
                   typesWithObjectFields, transforms>>
    /\ UNCHANGED exceptPrepare

\* an update of the loop that leaves the counter truthy
ChangesStayingTruthy(c) == 1

\* the update of the loop of line 1128: changes = 0
ChangesAfterPass(c) == 0

\* the end of the body (1140) and the update of the loop: ..; changes = 0)
EndPass ==
    /\ prepareStep = "pass"
    /\ entryCursor > Len(typesWithObjectFields)
    /\ typesWithObjectFields' = newTypesWithObjectFields
    /\ changes' = ChangesAfterPass(changes)
    /\ prepareStep' = "test"
    /\ UNCHANGED <<inputTypes, inputDirectivesInfo, sortedTypes,
                   typeCursor, newTypesWithObjectFields,
                   entryCursor, inputFieldDirectives, transforms>>
    /\ UNCHANGED exceptPrepare

\* the test of the loop fails: the call returns inputFieldDirectives
ReturnPrepared ==
    /\ prepareStep = "test"
    /\ changes = 0
    /\ prepareStep' = "returned"
    /\ UNCHANGED <<inputTypes, inputDirectivesInfo, sortedTypes,
                   typeCursor, typesWithObjectFields,
                   newTypesWithObjectFields, entryCursor, changes, inputFieldDirectives,
                   transforms>>
    /\ UNCHANGED exceptPrepare

\* this._inputDirectivesInfo = options.inputDirectivesInfo ?? {} (generate.ts 160-169)
BoundInputDirective(info, directive) ==
    ~IsUndef(info) /\ directive \in DOMAIN info /\ ~IsUndef(info[directive])

\* _findInputDirectiveInfoFromArgOrField returns something (673-703)
findsInputDirectiveInfo(table, info, field) ==
    \/ \E j \in 1..Len(field.directives) : BoundInputDirective(info, field.directives[j])
    \/ field.type \in DOMAIN table /\ DOMAIN table[field.type] # {}

\* fieldsWithDirectives.length of line 774-777 and 785 is not 0
rendersTransform(table, info, type) ==
    \E i \in 1..Len(type.fields) : findsInputDirectiveInfo(table, info, type.fields[i])

\* _renderGraphQLInputObjectTypeTypes for every input-object type
RenderInputObjectTypes ==
    /\ prepareStep = "returned"
    /\ transforms' =
          {inputTypes[k].name : k \in {i \in 1..Len(inputTypes) :
              rendersTransform(inputFieldDirectives, inputDirectivesInfo, inputTypes[i])}}
    /\ prepareStep' = "rendered"
    /\ UNCHANGED <<inputTypes, inputDirectivesInfo, sortedTypes,
                   typeCursor, typesWithObjectFields,
                   newTypesWithObjectFields, entryCursor, changes, inputFieldDirectives>>
    /\ UNCHANGED exceptPrepare

\* prepareInterfacesAndInputFieldDirectives(schema, options) is called: the
\* schema holds the four input-object types, in some order of its type map
CallPrepare ==
    /\ prepareStep = "idle"
    /\ CalledWith(
          {<<u, f, m, h>> : u \in InputObjectTypes("User"), f \in InputObjectTypes("Filter"),
                            m \in InputObjectTypes("Money"), h \in InputObjectTypes("Human")})

\* the call on a schema of three input-object types
CallPrepareSmaller ==
    /\ prepareStep = "idle"
    /\ CalledWith(SmallerSchemas)

\* what follows the call
PrepareSteps ==
    \/ SkipInputDirectives
    \/ CollectType
    \/ StartPropagation
    \/ BeginPass
    \/ CheckTriple
    \/ EndPass
    \/ ReturnPrepared
    \/ RenderInputObjectTypes

NextPrepareSmaller == CallPrepareSmaller \/ PrepareSteps

NextPrepare ==
    \/ CallPrepare
    \/ SkipInputDirectives
    \/ CollectType
    \/ StartPropagation
    \/ BeginPass
    \/ CheckTriple
    \/ EndPass
    \/ ReturnPrepared
    \/ RenderInputObjectTypes

SpecPrepare == InitPrepare /\ [][NextPrepare]_vars

\* the names of the input-object types of the schema
SchemaNames == {inputTypes[i].name : i \in 1..Len(inputTypes)}

\* the type named n
InputTypeNamed(n) == inputTypes[IndexOfName(inputTypes, n, 1)]

\* a field of the type carries a directive that has a binding
CarriesBoundDirective(n) ==
    \E i \in 1..Len(InputTypeNamed(n).fields) :
        \E j \in 1..Len(InputTypeNamed(n).fields[i].directives) :
            BoundInputDirective(inputDirectivesInfo, InputTypeNamed(n).fields[i].directives[j])

\* the input-object types of the fields of the type
FieldTypesOf(n) ==
    {InputTypeNamed(n).fields[i].type : i \in 1..Len(InputTypeNamed(n).fields)}
        \cap SchemaNames

\* the types reachable from n through at most k input-object-typed fields
RECURSIVE ReachableWithin(_, _)
ReachableWithin(n, k) ==
    IF k = 0 THEN {n}
    ELSE {n} \cup UNION {ReachableWithin(m, k - 1) : m \in FieldTypesOf(n)}

DirectiveBearing(n) ==
    \E m \in ReachableWithin(n, Len(inputTypes)) : CarriesBoundDirective(m)

\* C23: every input-object type from which a field with a bound input
\* directive is reachable through input-object-typed fields is registered in
\* inputFieldDirectives and gets a transform function, whatever the order of
\* the names of the types along the chain.
C23_NestedDirectivesRegistered ==
    prepareStep = "rendered" =>
        \A n \in SchemaNames :
            DirectiveBearing(n) => (n \in DOMAIN inputFieldDirectives /\ n \in transforms)

\* the steps of one call are taken one after the other until it returns and
\* the types are rendered
SpecPrepareLive ==
    InitPrepare /\ [][NextPrepareSmaller]_vars /\ WF_vars(NextPrepareSmaller)

\* some input-object type reaches itself through input-object-typed fields
OnCycle(n) == \E m \in FieldTypesOf(n) : n \in ReachableWithin(m, Len(inputTypes))

\* C30: the propagation loop of lines 1128-1141 terminates for every schema:
\* once its test is reached, the call returns.
C30_PropagationTerminates == (prepareStep = "test") ~> (prepareStep = "returned")

\* the call has returned for a schema whose input-object types form a cycle
\* that carries a bound directive
C30_Witness ==
    /\ prepareStep = "returned"
    /\ ~IsUndef(inputDirectivesInfo)
    /\ changes = 0
    /\ \E n \in SchemaNames :
          /\ OnCycle(n)
          /\ CarriesBoundDirective(n)
          /\ Cardinality(ReachableWithin(n, Len(inputTypes))) > 1

(***************************************************************************)
(* The cast helpers of the interfaces and unions                           *)
(* (generate.ts 597-671, 1016-1039)                                        *)
(***************************************************************************)
\* the object types, and the interfaces and unions they are members of
MemberNames == {"Droid", "Human", "User"}

ContainerNames == {"Entity", "Node", "SearchResult"}

MaxMembers == 2

\* implementors of an interface, types of a union: distinct object types
MemberLists ==
    {s \in UNION {[1..n -> MemberNames] : n \in 1..MaxMembers} :
        \A i, j \in 1..Len(s) : s[i] = s[j] => i = j}

Container(n, kind, members) == [name |-> n, kind |-> kind, members |-> members]

ContainerKinds == {"interface", "union"}

\* schemas of two interfaces or unions, in any declared order
CastSchemas ==
    {<<Container(a, ka, ma), Container(b, kb, mb)>> :
        <<a, b>> \in {p \in ContainerNames \X ContainerNames : p[1] # p[2]},
        <<ka, kb>> \in ContainerKinds \X ContainerKinds,
        <<ma, mb>> \in MemberLists \X MemberLists}

\* typesExprs renders the types in the order of their names (1029-1031)
InitCast ==
    /\ castSchema \in {SortedTypes(s) : s \in CastSchemas}
    /\ castStep = "types"
    /\ containerCursor = 1
    /\ helpers = <<>>
    /\ castValue = Undef
    /\ castBy = <<>>
    /\ resolvedBy = ""
    /\ resolvedAs = [kind |-> "undefined"]
    /\ EarlierIdle
    /\ PrepareIdle
    /\ RefsIdle

\* just-pascal-case leaves the names of the object types of the model as they are
PascalCaseOfType(n) == n

\* export const as<M> = <T>(v: T) => setTypename(v, "<M>"), inside namespace C
CastHelper(container, member) ==
    [namespace  |-> container.name,
     identifier |-> "as" \o PascalCaseOfType(member),
     container  |-> container.name,
     member     |-> member,
     key        |-> "__typename",
     value      |-> member]

\* the helpers of one namespace, one per member in the order of the members
CastHelpersOf(container) ==
    [i \in 1..Len(container.members) |-> CastHelper(container, container.members[i])]

\* _renderGraphQLInterfaceTypeTypes (612-636): one helper per implementor
RenderInterfaceTypes ==
    /\ castStep = "types"
    /\ containerCursor <= Len(castSchema)
    /\ castSchema[containerCursor].kind = "interface"
    /\ helpers' = helpers \o CastHelpersOf(castSchema[containerCursor])
    /\ containerCursor' = containerCursor + 1
    /\ UNCHANGED <<castSchema, castStep, castValue, castBy, resolvedBy, resolvedAs>>
    /\ UNCHANGED exceptCast

\* _renderGraphQLUnionTypeTypes (659-671): one helper per type of the union
RenderUnionTypes ==
    /\ castStep = "types"
    /\ containerCursor <= Len(castSchema)
    /\ castSchema[containerCursor].kind = "union"
    /\ helpers' = helpers \o CastHelpersOf(castSchema[containerCursor])
    /\ containerCursor' = containerCursor + 1
    /\ UNCHANGED <<castSchema, castStep, castValue, castBy, resolvedBy, resolvedAs>>
    /\ UNCHANGED exceptCast

\* the file is rendered: the helpers can be called
ReturnTypesExprs ==
    /\ castStep = "types"
    /\ containerCursor > Len(castSchema)
    /\ castStep' = "rendered"
    /\ UNCHANGED <<castSchema, containerCursor, helpers, castValue, castBy, resolvedBy,
                   resolvedAs>>
    /\ UNCHANGED exceptCast

\* the values handed to a helper: a primitive, or an object with or without
\* a __typename of its own
CastArguments ==
    {Undef, [kind |-> "object", typename |-> ""]} \cup
    {[kind |-> "object", typename |-> m] : m \in MemberNames}

\* setTypename (1021-1026): Object.assign(v, { __typename: t })
setTypename(v, typeName) == [v EXCEPT !.typename = typeName]

\* a helper is called on an object
CallCastHelper ==
    /\ castStep \in {"rendered", "cast", "resolved"}
    /\ \E i \in 1..Len(helpers), v \in CastArguments \cup {castValue} :
          /\ v.kind = "object"
          /\ castValue' = setTypename(v, helpers[i].value)
          /\ castBy' = <<helpers[i].member, helpers[i].container>>
    /\ castStep' = "cast"
    /\ resolvedBy' = ""
    /\ resolvedAs' = Undef
    /\ UNCHANGED <<castSchema, containerCursor, helpers>>
    /\ UNCHANGED exceptCast

\* setTypename throws "expected object" for anything else (1022-1024)
ThrowExpectedObject ==
    /\ castStep \in {"rendered", "cast", "resolved"}
    /\ \E v \in CastArguments : v.kind # "object"
    /\ castStep' = "threw"
    /\ castValue' = Undef
    /\ castBy' = <<>>
    /\ resolvedBy' = ""
    /\ resolvedAs' = Undef
    /\ UNCHANGED <<castSchema, containerCursor, helpers>>
    /\ UNCHANGED exceptCast

\* The rendered definitions (597-610, 638-655) carry no resolveType: the type
\* of a value is the name it carries under __typename, as in the last line of
\* the resolver of 556-566.
ResolveType ==
    /\ castStep = "cast"
    /\ \E i \in 1..Len(castSchema) : resolvedBy' = castSchema[i].name
    /\ resolvedAs' = [kind |-> "name", value |-> castValue.typename]
    /\ castStep' = "resolved"
    /\ UNCHANGED <<castSchema, containerCursor, helpers, castValue, castBy>>
    /\ UNCHANGED exceptCast

NextCast ==
    \/ RenderInterfaceTypes
    \/ RenderUnionTypes
    \/ ReturnTypesExprs
    \/ CallCastHelper
    \/ ThrowExpectedObject
    \/ ResolveType

SpecCast == InitCast /\ [][NextCast]_vars

\* the container of the schema named n
ContainerNamed(n) == castSchema[IndexOfName(castSchema, n, 1)]

MembersOf(n) == {ContainerNamed(n).members[i] : i \in 1..Len(ContainerNamed(n).members)}

\* two helpers stamp the same key with the same value
SameDiscriminant(g, h) == g.key = h.key /\ g.value = h.value

\* two helpers carry the same qualified identifier
SameHelperIdentifier(g, h) == g.namespace = h.namespace /\ g.identifier = h.identifier

\* the helpers of two different (member, container) pairs
DifferentPairs(g, h) == g.member # h.member \/ g.container # h.container

\* no two pairs share a discriminant or a helper identifier
DiscriminantsUnique ==
    \A i, j \in 1..Len(helpers) :
        DifferentPairs(helpers[i], helpers[j]) =>
            /\ ~SameDiscriminant(helpers[i], helpers[j])
            /\ ~SameHelperIdentifier(helpers[i], helpers[j])

\* a value cast for one container is not recognised by another one
NotRecognisedElsewhere ==
    (castStep = "resolved" /\ resolvedBy # castBy[2]) =>
        resolvedAs.value \notin MembersOf(resolvedBy)

\* the container of the cast resolves the value to the member of the cast
ResolvedToMember ==
    (castStep = "resolved" /\ resolvedBy = castBy[2]) => resolvedAs.value = castBy[1]

\* C24: the discriminant a cast helper stamps is unique to its (member,
\* container) pair: no two different pairs share a discriminant key and value
\* or a helper identifier, a value cast as member M of C is never recognised
\* as a member of another interface or union, and C's type resolution maps a
\* value stamped for (M, C) to M's name.
C24_DiscriminantUniquePerPair ==
    /\ DiscriminantsUnique
    /\ NotRecognisedElsewhere
    /\ ResolvedToMember

(***************************************************************************)
(* The references to other modules the renderer emits                      *)
(* (generate.ts 274, 287, 341, 397-439, 542-544; utils/reference.ts)       *)
(***************************************************************************)
\* the references rendered in one file
MaxRefs == 3

RefModules == {"/src/money.ts", "/src/scalars.ts"}

\* exported names: a plain one and a reserved word
RefSymbols == {Sym("Value"), Sym("class")}

\* the bindings handed to the renderer; module "" is a symbol of the file itself
RefInputs == {Reference(m, s) : m \in RefModules \cup {""}, s \in RefSymbols}

\* the scalars of the schema: two custom ones and a built-in one
RefScalarNames == {"Date", "Money", "String"}

\* options.scalarsInfo[name].type of the custom scalars: absent, or a reference
ScalarTypeInfos == {NoInfo} \cup {Reference(m, Sym("Value")) : m \in RefModules \cup {""}}

InitRefs ==
    /\ pkgs = NewRequiredPackages
    /\ calls = <<>>
    /\ schemaTypes = <<>>
    /\ scalarsInfo \in {[n \in RefScalarNames |-> IF n = "String" THEN NoInfo ELSE f[n]] :
                           f \in [{"Date", "Money"} -> ScalarTypeInfos]}
    /\ extMode = "omit"
    /\ outputs = <<>>
    /\ scalarTypeTypeCache = <<>>
    /\ emittedRefs = <<>>
    /\ MergeIdle
    /\ CommandIdle
    /\ EqualityIdle
    /\ ExportsIdle
    /\ ScalarsIdle
    /\ ResolversIdle
    /\ LookupIdle
    /\ PrepareIdle
    /\ CastIdle

\* an identifier is emitted for ref; call is the position in calls of the
\* request made for it, 0 when the registry was not asked
Emitted(kind, ref, identifier, call) ==
    [kind |-> kind, module |-> ref.module, symbol |-> ref.symbol,
     identifier |-> identifier, call |-> call]

\* the registry is asked for (pkg, name, alias) and kind emits identifier
RequestedAndEmitted(kind, ref, alias, r, identifier) ==
    /\ pkgs' = r.pkgs
    /\ calls' = Append(calls, [pkg |-> ref.module, name |-> ref.symbol, alias |-> alias,
                               symbol |-> r.symbol])
    /\ emittedRefs' = Append(emittedRefs, Emitted(kind, ref, identifier, Len(calls) + 1))

\* a symbol of the file itself is emitted as it is
EmittedLocally(kind, ref, identifier) ==
    /\ emittedRefs' = Append(emittedRefs, Emitted(kind, ref, identifier, 0))
    /\ UNCHANGED <<pkgs, calls>>

ReferenceKinds == {"resolver", "subscriber", "codec"}

\* renderSymbolReference(this._pkgs, ref) of lines 274, 341 and 542-544
RenderSymbolReference ==
    /\ Len(emittedRefs) < MaxRefs
    /\ \E kind \in ReferenceKinds, ref \in RefInputs :
          IF ref.module # ""
          THEN RequestedAndEmitted(kind, ref, ref.alias, addRequires(pkgs, ref.module, ref.symbol, ref.alias),
                                   renderSymbolReference(pkgs, ref).symbol)
          ELSE EmittedLocally(kind, ref, renderSymbolReference(pkgs, ref).symbol)
    /\ UNCHANGED <<schemaTypes, scalarsInfo, extMode, outputs, scalarTypeTypeCache>>
    /\ UNCHANGED exceptRefs

DirectiveAlias == Sym("applyAuthFieldDirective")

\* renderSymbolReference(this._pkgs, ref, `apply...FieldDirective`) of line 287
RenderDirectiveReference ==
    /\ Len(emittedRefs) < MaxRefs
    /\ \E ref \in RefInputs :
          IF ref.module # ""
          THEN RequestedAndEmitted("directive", ref, DirectiveAlias,
                                   addRequires(pkgs, ref.module, ref.symbol, DirectiveAlias),
                                   renderSymbolReferenceAs(pkgs, ref, DirectiveAlias).symbol)
          ELSE EmittedLocally("directive", ref, renderSymbolReferenceAs(pkgs, ref, DirectiveAlias).symbol)
    /\ UNCHANGED <<schemaTypes, scalarsInfo, extMode, outputs, scalarTypeTypeCache>>
    /\ UNCHANGED exceptRefs

\* the switch of lines 412-429 over the built-in scalars of the model
BuiltInScalarType(n) == IF n = "String" THEN Sym("string") ELSE Sym("")

\* lines 404-410: the name the registry returns is assigned to returnType and
\* then overwritten by info.type.symbol
ReturnTypeOf(info, local) == info.symbol

\* _findScalarType (397-439) for a scalar that is not in the cache
FindScalarType ==
    /\ Len(emittedRefs) < MaxRefs
    /\ \E n \in RefScalarNames \ DOMAIN scalarTypeTypeCache :
          LET info == scalarsInfo[n] IN
          /\ IF info # NoInfo /\ info.module # ""
             THEN LET r == addRequires(pkgs, info.module, info.symbol, NoAlias) IN
                  /\ RequestedAndEmitted("scalar type", info, NoAlias, r, ReturnTypeOf(info, r.symbol))
                  /\ scalarTypeTypeCache' = Put(scalarTypeTypeCache, n, ReturnTypeOf(info, r.symbol))
             ELSE IF info # NoInfo
             THEN /\ EmittedLocally("scalar type", info, info.symbol)
                  /\ scalarTypeTypeCache' = Put(scalarTypeTypeCache, n, info.symbol)
             ELSE /\ EmittedLocally("built-in", info, BuiltInScalarType(n))
                  /\ scalarTypeTypeCache' = Put(scalarTypeTypeCache, n, BuiltInScalarType(n))
    /\ UNCHANGED <<schemaTypes, scalarsInfo, extMode, outputs>>
    /\ UNCHANGED exceptRefs

\* the position of the last request for (pkg, name), 0 when there is none
RECURSIVE LastCallFor(_, _, _)
LastCallFor(pkg, name, i) ==
    IF i = 0 THEN 0
    ELSE IF calls[i].pkg = pkg /\ calls[i].name = name THEN i
    ELSE LastCallFor(pkg, name, i - 1)

\* _findScalarType for a scalar that is in the cache (398-400)
FindCachedScalarType ==
    /\ Len(emittedRefs) < MaxRefs
    /\ \E n \in DOMAIN scalarTypeTypeCache :
          emittedRefs' = Append(emittedRefs,
              Emitted("scalar type", scalarsInfo[n], scalarTypeTypeCache[n],
                      LastCallFor(scalarsInfo[n].module, scalarsInfo[n].symbol, Len(calls))))
    /\ UNCHANGED <<pkgs, calls, schemaTypes, scalarsInfo, extMode, outputs, scalarTypeTypeCache>>
    /\ UNCHANGED exceptRefs

NextRefs ==
    \/ RenderSymbolReference
    \/ RenderDirectiveReference
    \/ FindScalarType
    \/ FindCachedScalarType

SpecRefs == InitRefs /\ [][NextRefs]_vars

\* the identifier emitted at position i is the local name the registry returned
EmitsLocalName(i) == emittedRefs[i].identifier = calls[emittedRefs[i].call].symbol

\* the reference emitted at position i names a symbol of another module
IsExternal(i) == emittedRefs[i].call # 0

\* the registry renamed the symbol requested for position i
Renamed(i) == calls[emittedRefs[i].call].symbol # emittedRefs[i].symbol

\* C25: every identifier emitted for a symbol of another module is the local
\* name the registry returned for the request, whatever is referred to (a
\* resolver, a subscriber, a directive, a scalar codec function or an inferred
\* scalar value type), also when the registry renamed the symbol.
C25_EmittedIdentifierIsLocalName ==
    \A i \in 1..Len(emittedRefs) : IsExternal(i) => EmitsLocalName(i)

\* the same for all references but the inferred scalar value types
C25_RenderedReferencesUseLocalName ==
    \A i \in 1..Len(emittedRefs) :
        (IsExternal(i) /\ emittedRefs[i].kind # "scalar type") => EmitsLocalName(i)

(***************************************************************************)
(* The registry after a sequence of requests (utils/packages.ts 3-39)      *)
(***************************************************************************)
\* this.requires[pkg] holds symbol
Requires(reg, pkg, symbol) ==
    /\ IndexOfPkg(reg.requires, pkg, 1) # 0
    /\ \E k \in 1..Len(reg.requires[IndexOfPkg(reg.requires, pkg, 1)].symbols) :
          reg.requires[IndexOfPkg(reg.requires, pkg, 1)].symbols[k] = symbol

\* the local name call i returned is no reserved word
NotReserved(i) == calls[i].symbol \notin keywords

\* the local name call i returned is owned by the module of the call
OwnedByItsModule(i) ==
    /\ calls[i].symbol \in DOMAIN pkgs.symbols
    /\ pkgs.symbols[calls[i].symbol] = calls[i].pkg

\* the alias table says which export the local name of call i stands for
AliasConsistent(i) ==
    IF calls[i].symbol # calls[i].name
    THEN calls[i].symbol \in DOMAIN pkgs.aliases /\ pkgs.aliases[calls[i].symbol] = calls[i].name
    ELSE calls[i].symbol \notin DOMAIN pkgs.aliases

\* C26: after any sequence of addRequires calls, the local name L returned for
\* a request (m, n, alias) is no reserved word and is owned by m and by no
\* other module, L is in requires[m], and the alias table is consistent with
\* it: aliases[L] = n when L differs from n, no entry for L when L = n.
C26_RegistryConsistentWithRequests ==
    \A i \in 1..Len(calls) :
        /\ NotReserved(i)
        /\ OwnedByItsModule(i)
        /\ Requires(pkgs, calls[i].pkg, calls[i].symbol)
        /\ AliasConsistent(i)

\* the parts of it that do not depend on the alias table
C26_WithoutAliases ==
    \A i \in 1..Len(calls) :
        /\ NotReserved(i)
        /\ OwnedByItsModule(i)
        /\ Requires(pkgs, calls[i].pkg, calls[i].symbol)

(***************************************************************************)
(* findExports with the elements of `export { .. }` that name no module    *)
(* (utils/typescript.ts 49-306): both loops over the statements            *)
(***************************************************************************)
\* the findExports calls that may be in progress at once
MaxDepth == 4

\* the declarations the second loop looks at (160-249)
DeclarationKinds == {"variable", "function", "class", "type alias", "interface", "enum"}

\* a declaration without the export keyword; a namespace is a declaration
\* the second loop does not look at
LocalDeclaration(decl, n) ==
    [kind |-> "local", name |-> n, elements |-> <<>>, from |-> "", decl |-> decl]

\* an ImportSpecifier: name is the local name, propertyName the name in
\* front of `as` ("" when there is no `as`)
ImportElement(property, n) == [name |-> n, propertyName |-> property]

\* import { elements } from "specifier"
NamedImport(elements, specifier) ==
    [kind |-> "import", name |-> "", elements |-> elements, from |-> specifier]

\* export { elements }
ExportLocal(elements) ==
    [kind |-> "export-local", name |-> "", elements |-> elements, from |-> ""]

\* a findExports call at its first statement
NewFrame(m) ==
    [module |-> m, next |-> 1, exports |-> <<>>, pass |-> 1, namedExports |-> <<>>]

\* a findExports call that has nothing left to do
FinishedFrame(m) ==
    [NewFrame(m) EXCEPT !.pass = 2, !.next = Len(moduleFiles[m]) + 1]

\* the module is on the stack of calls already
OnStack(stack, m) == \E i \in 1..Len(stack) : stack[i].module = m

\* a recursion that does not enter a module it is in the middle of
FollowsUnlessVisited(stack, m) ==
    IF OnStack(stack, m) THEN Append(stack, FinishedFrame(m)) ELSE Append(stack, NewFrame(m))

\* await findExports(await resolveModuleFn(..), resolveModuleFn): the call is
\* made whatever calls are in progress (110-113, 143-149)
Follows(stack, m) == Append(stack, NewFrame(m))

\* e.property ?? e.name
LocalNameOf(e) == IF e.propertyName # "" THEN e.propertyName ELSE e.name

\* Object.fromEntries(namedExports.map(e => [e.property ?? e.name, e.name])):
\* the last entry of a key is the one that stays
Names(entries) ==
    [l \in {LocalNameOf(entries[i]) : i \in 1..Len(entries)} |->
        entries[CHOOSE i \in 1..Len(entries) :
                    /\ LocalNameOf(entries[i]) = l
                    /\ \A j \in (i + 1)..Len(entries) : LocalNameOf(entries[j]) # l].name]

\* the frame has run the first loop, and the second one if there is one
FrameFinished(frame) ==
    /\ ~AtStatement(frame)
    /\ frame.pass = 2 \/ frame.namedExports = <<>>

InFirstLoop(frame) == frame.pass = 1 /\ AtStatement(frame)

InSecondLoop(frame) == frame.pass = 2 /\ AtStatement(frame)

\* the top frame is replaced by f
TopBecomes(f) ==
    /\ frames' = [frames EXCEPT ![Len(frames)] = f]
    /\ UNCHANGED <<moduleFiles, parsed, exportsOutcome, exportsResult, exportsError>>
    /\ UNCHANGED exceptExports

\* first loop, a declaration with the export keyword (56-100)
VisitExported ==
    /\ exportsOutcome = "running"
    /\ InFirstLoop(Top)
    /\ StatementOf(Top).kind = "declaration"
    /\ TopBecomes(Advanced(Top, pushExports(Top.exports, StatementOf(Top).name,
                      <<Declaration(Top.module, Top.next, StatementOf(Top).name)>>)))

\* first loop, a declaration without the export keyword, or an import
VisitUnexported ==
    /\ exportsOutcome = "running"
    /\ InFirstLoop(Top)
    /\ StatementOf(Top).kind \in {"local", "import"}
    /\ TopBecomes(Advanced(Top, Top.exports))

\* namedExports.push({ name, property }) for each element, from element i
RECURSIVE PushNamedExports(_, _, _)
PushNamedExports(entries, elements, i) ==
    IF i > Len(elements) THEN entries
    ELSE PushNamedExports(Append(entries, elements[i]), elements, i + 1)

\* first loop, `export { .. }` without a module specifier (127-134)
VisitNamedExports ==
    /\ exportsOutcome = "running"
    /\ InFirstLoop(Top)
    /\ StatementOf(Top).kind = "export-local"
    /\ TopBecomes([Advanced(Top, Top.exports) EXCEPT !.namedExports =
                      PushNamedExports(@, StatementOf(Top).elements, 1)])

\* first loop, `export { .. } from` or `export * from`: the module is
\* resolved and findExports is called on it (110-113, 143-149)
FollowReExport ==
    /\ exportsOutcome = "running"
    /\ InFirstLoop(Top)
    /\ StatementOf(Top).kind \in {"export-from", "export-all"}
    /\ Len(frames) < MaxDepth
    /\ parsed' = Append(parsed, resolveModule(StatementOf(Top).from))
    /\ frames' = Follows(frames, resolveModule(StatementOf(Top).from))
    /\ UNCHANGED <<moduleFiles, exportsOutcome, exportsResult, exportsError>>
    /\ UNCHANGED exceptExports

FrameReturning ==
    /\ exportsOutcome = "running"
    /\ FrameFinished(Top)
    /\ Len(frames) > 1

\* the inner call returns to `export { .. } from`, all names found (114-126)
ReturnToExportFrom ==
    /\ FrameReturning
    /\ StatementOf(Caller).kind = "export-from"
    /\ Copied(CopyNamed(Caller.exports, StatementOf(Caller).elements, 1, Top.exports))
    /\ UNCHANGED <<moduleFiles, parsed, exportsOutcome, exportsResult, exportsError>>
    /\ UNCHANGED exceptExports

\* ... a name is not in the exports of the module (117-123)
ThrowFromExportFrom ==
    /\ FrameReturning
    /\ StatementOf(Caller).kind = "export-from"
    /\ NotFound(CopyNamed(Caller.exports, StatementOf(Caller).elements, 1, Top.exports))
    /\ exportsOutcome' = "thrown"
    /\ UNCHANGED <<moduleFiles, parsed, frames, exportsResult>>
    /\ UNCHANGED exceptExports

\* the inner call returns to `export * from` (141-150)
ReturnToExportAll ==
    /\ FrameReturning
    /\ StatementOf(Caller).kind = "export-all"
    /\ frames' = [SubSeq(frames, 1, Len(frames) - 1) EXCEPT ![Len(frames) - 1] =
                    Advanced(Caller, ObjectAssign(Caller.exports, Top.exports))]
    /\ UNCHANGED <<moduleFiles, parsed, exportsOutcome, exportsResult, exportsError>>
    /\ UNCHANGED exceptExports

\* if (namedExports.length): the second loop starts (155-159)
StartSecondLoop ==
    /\ exportsOutcome = "running"
    /\ Top.pass = 1
    /\ ~AtStatement(Top)
    /\ Top.namedExports # <<>>
    /\ TopBecomes([Top EXCEPT !.pass = 2, !.next = 1])

\* the statement is a declaration of one of the kinds of 160-249
IsMatchedDeclaration(statement) ==
    \/ statement.kind = "declaration"
    \/ statement.kind = "local" /\ statement.decl \in DeclarationKinds

\* second loop, a declaration: recorded under names[its name] when its name
\* is a key of names (160-249)
MatchDeclaration ==
    /\ exportsOutcome = "running"
    /\ InSecondLoop(Top)
    /\ IsMatchedDeclaration(StatementOf(Top))
    /\ TopBecomes(
          IF StatementOf(Top).name \in DOMAIN Names(Top.namedExports)
          THEN Advanced(Top, pushExports(Top.exports,
                   Names(Top.namedExports)[StatementOf(Top).name],
                   <<Declaration(Top.module, Top.next,
                                 Names(Top.namedExports)[StatementOf(Top).name])>>))
          ELSE Advanced(Top, Top.exports))

\* the test of lines 258-262 on an element of a named import
ElementMatches(element, names) ==
    element.propertyName # "" /\ element.propertyName \in DOMAIN names

ImportMatches(statement, names) ==
    /\ statement.kind = "import"
    /\ \E i \in 1..Len(statement.elements) : ElementMatches(statement.elements[i], names)

\* second loop, a statement that records nothing: a re-export, an
\* `export { .. }`, a namespace, an import none of whose elements passes the
\* test
PassOverStatement ==
    /\ exportsOutcome = "running"
    /\ InSecondLoop(Top)
    /\ ~IsMatchedDeclaration(StatementOf(Top))
    /\ ~ImportMatches(StatementOf(Top), Names(Top.namedExports))
    /\ TopBecomes(Advanced(Top, Top.exports))

\* statement.moduleSpecifier.getText(source): the literal with its quotes
SpecifierText(statement) == "\"" \o statement.from \o "\""

\* new URL(specifier) of resolveModule for a specifier that does not start
\* with "." (27-32)
InvalidURL(specifier) ==
    [type |-> "TypeError", text |-> "Invalid URL", subject |-> <<specifier>>,
     callSite |-> <<>>]

\* second loop, a named import with an element that passes the test: the
\* module is resolved from the text of the specifier (263-272), which starts
\* with a quote, so resolveModule throws at new URL(specifier)
ThrowInvalidURL ==
    /\ exportsOutcome = "running"
    /\ InSecondLoop(Top)
    /\ ImportMatches(StatementOf(Top), Names(Top.namedExports))
    /\ exportsOutcome' = "thrown"
    /\ exportsError' = InvalidURL(SpecifierText(StatementOf(Top)))
    /\ UNCHANGED <<moduleFiles, parsed, frames, exportsResult>>
    /\ UNCHANGED exceptExports

\* findExports of the entry module returns (305)
ReturnFound ==
    /\ exportsOutcome = "running"
    /\ FrameFinished(Top)
    /\ Len(frames) = 1
    /\ exportsResult' = Top.exports
    /\ exportsOutcome' = "returned"
    /\ UNCHANGED <<moduleFiles, parsed, frames, exportsError>>
    /\ UNCHANGED exceptExports

(***************************************************************************)
(* `export { a as b }` in a module that binds a (SpecNamedExports)         *)
(***************************************************************************)
\* what binds the local name a in the entry module
BindingStatements ==
    {LocalDeclaration(decl, "a") : decl \in DeclarationKinds \cup {"namespace"}} \cup
    {NamedImport(<<ImportElement("", "a")>>, "./b"),
     NamedImport(<<ImportElement("x", "a")>>, "./b"),
     NamedImport(<<ImportElement("a", "x")>>, "./b")}

\* export { a }, export { a as b }, export { a as b, a as c }
LocalExportStatements ==
    {ExportLocal(<<ExportSpecifier("", "a")>>),
     ExportLocal(<<ExportSpecifier("a", "b")>>),
     ExportLocal(<<ExportSpecifier("a", "b"), ExportSpecifier("a", "c")>>)}

\* what else the entry module holds
OtherStatements ==
    {<<>>, <<ExportAllFrom("./b")>>, <<ExportFrom(<<ExportSpecifier("", "x")>>, "./b")>>,
     <<ExportFrom(<<ExportSpecifier("", "zz")>>, "./b")>>}

NamedExportModules ==
    {[m \in ModulePaths |->
        CASE m = "/a.ts" -> sa
          [] m = "/b.ts" -> <<ExportedDeclaration("a"), ExportedDeclaration("x")>>
          [] OTHER -> <<ExportedDeclaration("a")>>] :
     sa \in {<<s, e>> \o o : s \in BindingStatements, e \in LocalExportStatements,
                              o \in OtherStatements}
            \cup {<<e, s>> \o o : s \in BindingStatements, e \in LocalExportStatements,
                                   o \in OtherStatements}}

InitNamedExports ==
    /\ moduleFiles \in NamedExportModules
    /\ parsed = <<EntryModule>>
    /\ frames = <<NewFrame(EntryModule)>>
    /\ exportsOutcome = "running"
    /\ exportsResult = <<>>
    /\ exportsError = NoError
    /\ MergeIdle
    /\ GeneratorIdle
    /\ CommandIdle
    /\ EqualityIdle
    /\ ScalarsIdle
    /\ ResolversIdle
    /\ LookupIdle
    /\ LaterIdle

NextNamedExports ==
    \/ VisitExported
    \/ VisitUnexported
    \/ VisitNamedExports
    \/ FollowReExport
    \/ ReturnToExportFrom
    \/ ThrowFromExportFrom
    \/ ReturnToExportAll
    \/ StartSecondLoop
    \/ MatchDeclaration
    \/ PassOverStatement
    \/ ThrowInvalidURL
    \/ ReturnFound

SpecNamedExports == InitNamedExports /\ [][NextNamedExports]_vars

\* the exports of module path, a module of exported declarations
ExportedBy(path) == {moduleFiles[path][i].name : i \in 1..Len(moduleFiles[path])}

\* statement i of the entry module binds the local name l: a declaration of
\* one of the six kinds, or a named import whose target exists in its module
BindsLocal(i, l) ==
    \/ /\ EntryStatement(i).kind = "local"
       /\ EntryStatement(i).decl \in DeclarationKinds
       /\ EntryStatement(i).name = l
    \/ /\ EntryStatement(i).kind = "import"
       /\ \E k \in 1..Len(EntryStatement(i).elements) :
             /\ EntryStatement(i).elements[k].name = l
             /\ LocalNameOf(EntryStatement(i).elements[k])
                    \in ExportedBy(resolveModule(EntryStatement(i).from))

\* the table holds, under external name n, the declaration of statement i
RecordsUnder(n, i) ==
    /\ HasName(exportsResult, n)
    /\ \E k \in 1..Len(DictGet(exportsResult, n).decls) :
          /\ DictGet(exportsResult, n).decls[k].source = EntryModule
          /\ DictGet(exportsResult, n).decls[k].declaration = i
          /\ DictGet(exportsResult, n).decls[k].name = n

\* a re-export of the module names an export its module does not have
ReExportNotFound ==
    exportsOutcome = "thrown" /\ exportsError.text = "Exported name not found"

\* every element of every `export { .. }` of the entry module has its entry
EveryElementRecorded ==
    \A i, j \in 1..Len(moduleFiles[EntryModule]) :
        EntryStatement(j).kind = "export-local" =>
            \A k \in 1..Len(EntryStatement(j).elements) :
                BindsLocal(i, LocalNameOf(EntryStatement(j).elements[k])) =>
                    /\ exportsOutcome = "returned"
                    /\ RecordsUnder(EntryStatement(j).elements[k].name, i)

\* C27: for every element `a as b` (or `a`) of an `export { .. }` without a
\* module specifier, findExports records under b the declaration bound to a
\* in the module: a variable, function, class, type alias, interface or enum,
\* or a named import whose target exists; every element has its entry, also
\* when one local name is exported under two external names.
C27_LocalNamedExportsRecorded ==
    (ExportsFinished /\ ~ReExportNotFound) => EveryElementRecorded

\* the same, for the declarations only and one external name per local name
C27_SingleDeclarationRecorded ==
    (ExportsFinished /\ ~ReExportNotFound) =>
        \A i, j \in 1..Len(moduleFiles[EntryModule]) :
            (/\ EntryStatement(j).kind = "export-local"
             /\ Len(EntryStatement(j).elements) = 1
             /\ EntryStatement(i).kind = "local"
             /\ ~\E h \in 1..Len(moduleFiles[EntryModule]) : EntryStatement(h).kind = "import"
             /\ BindsLocal(i, LocalNameOf(EntryStatement(j).elements[1]))) =>
                /\ exportsOutcome = "returned"
                /\ RecordsUnder(EntryStatement(j).elements[1].name, i)

(***************************************************************************)
(* findExports over graphs of re-exports, with and without cycles          *)
(* (SpecFindExportsLive)                                                   *)
(***************************************************************************)
NamedReExport(specifier) == ExportFrom(<<ExportSpecifier("", "a")>>, specifier)

\* the entry module, with a re-export or with an `export { .. }` of its own
EntryGraphStatements ==
    {<<ExportAllFrom("./b")>>,
     <<NamedReExport("./b")>>,
     <<ExportedDeclaration("a"), ExportAllFrom("./b")>>,
     <<ExportAllFrom("./b"), ExportAllFrom("./c")>>,
     <<LocalDeclaration("function", "a"), ExportLocal(<<ExportSpecifier("", "a")>>),
       ExportAllFrom("./b")>>,
     <<NamedImport(<<ImportElement("a", "x")>>, "./b"), LocalDeclaration("class", "a"),
       ExportLocal(<<ExportSpecifier("", "a")>>)>>}

\* ./b: a leaf, a link of a chain, a link back, a loop, a failing re-export
MiddleGraphStatements ==
    {<<ExportedDeclaration("a")>>,
     <<ExportAllFrom("./c")>>,
     <<NamedReExport("./c")>>,
     <<ExportAllFrom("./a")>>,
     <<ExportAllFrom("./b")>>,
     <<ExportFrom(<<ExportSpecifier("", "zz")>>, "./c"), ExportAllFrom("./a")>>}

LastGraphStatements ==
    {<<ExportedDeclaration("a")>>,
     <<ExportAllFrom("./d")>>,
     <<ExportAllFrom("./a")>>,
     <<NamedReExport("./b")>>}

ReExportGraphs ==
    {[m \in ModulePaths |->
        CASE m = "/a.ts" -> sa [] m = "/b.ts" -> sb [] m = "/c.ts" -> sc
          [] OTHER -> <<ExportedDeclaration("a")>>] :
     sa \in EntryGraphStatements, sb \in MiddleGraphStatements, sc \in LastGraphStatements}

\* before parseModule is called
InitFindExports ==
    /\ ExportsIdle
    /\ MergeIdle
    /\ GeneratorIdle
    /\ CommandIdle
    /\ EqualityIdle
    /\ ScalarsIdle
    /\ ResolversIdle
    /\ LookupIdle
    /\ LaterIdle

\* parseModule(path): parseSource(url), then findExports(source) (321-335)
CallFindExports ==
    /\ exportsOutcome = "idle"
    /\ moduleFiles' \in ReExportGraphs
    /\ parsed' = <<EntryModule>>
    /\ frames' = <<NewFrame(EntryModule)>>
    /\ exportsOutcome' = "running"
    /\ UNCHANGED <<exportsResult, exportsError>>
    /\ UNCHANGED exceptExports

NextFindExportsLive ==
    \/ CallFindExports
    \/ VisitExported
    \/ VisitUnexported
    \/ VisitNamedExports
    \/ FollowReExport
    \/ ReturnToExportFrom
    \/ ThrowFromExportFrom
    \/ ReturnToExportAll
    \/ StartSecondLoop
    \/ MatchDeclaration
    \/ PassOverStatement
    \/ ThrowInvalidURL
    \/ ReturnFound

\* every await of the recursion settles: a step that can be taken is taken
SpecFindExportsLive ==
    InitFindExports /\ [][NextFindExportsLive]_vars /\ WF_vars(NextFindExportsLive)

\* m re-exports from n, or imports names from n
ReExportEdge(m, n) ==
    \E i \in 1..Len(moduleFiles[m]) :
        /\ moduleFiles[m][i].kind \in {"export-from", "export-all", "import"}
        /\ resolveModule(moduleFiles[m][i].from) = n

\* the modules reached from m over at least one and at most k edges
RECURSIVE ReachedFrom(_, _)
ReachedFrom(m, k) ==
    IF k = 0 THEN {}
    ELSE {n \in ModulePaths : ReExportEdge(m, n)} \cup
         UNION {ReachedFrom(n, k - 1) : n \in {x \in ModulePaths : ReExportEdge(m, x)}}

ReachedFromEntry == {EntryModule} \cup ReachedFrom(EntryModule, Cardinality(ModulePaths))

\* the graph of the entry module holds a cycle
GraphCyclic ==
    \E m \in ReachedFromEntry : m \in ReachedFrom(m, Cardinality(ModulePaths))

\* a call of findExports is in progress inside a call for the same module
Revisits == \E i, j \in 1..Len(frames) : i < j /\ frames[i].module = frames[j].module

\* on an acyclic graph findExports returns a table or throws
AcyclicTerminates == (exportsOutcome = "running" /\ ~GraphCyclic) ~> ExportsFinished

\* once the recursion is back in a module it is in, it never returns
CycleNeverReturns == [](Revisits => [](exportsOutcome = "running"))

SpecifierOrder == <<"./money", "./scalars", "graphql">>

SpecifierRank(from) == RankIn(SpecifierOrder, from.path, 1)

\* the local name an import specifier binds
LocalNameBound(specifier) == IF specifier.as # <<>> THEN specifier.as[1] ELSE specifier.id

\* the statements of a group are in ascending order of module specifier
StatementsAscending(group) ==
    \A i, j \in 1..Len(group) : i < j => SpecifierRank(group[i].from) < SpecifierRank(group[j].from)

\* the names of a statement are in ascending order of local name
NamesAscending(statement) ==
    \A i, j \in 1..Len(statement.names) :
        i < j => SymbolCompare(LocalNameBound(statement.names[i]),
                               LocalNameBound(statement.names[j])) < 0

IsLocalSpecifier(from) == from.path \in {"./money", "./scalars"}

\* the first group holds the packages, the second one the paths
Partitioned(text) ==
    /\ \A i \in 1..Len(text.external) : ~IsLocalSpecifier(text.external[i].from)
    /\ \A i \in 1..Len(text.local) : IsLocalSpecifier(text.local[i].from)

EveryNameListAscending(text) ==
    /\ \A i \in 1..Len(text.external) : NamesAscending(text.external[i])
    /\ \A i \in 1..Len(text.local) : NamesAscending(text.local[i])

\* C29: in every rendered file the import statements form a package group
\* and a path group, the statements of each group are in ascending order of
\* module specifier and the names of each statement in ascending order of
\* local name, whatever the order the imports were requested in.
C29_ImportsPartitionedAndSorted ==
    \A k \in 1..Len(outputs) :
        /\ Partitioned(outputs[k].text)
        /\ StatementsAscending(outputs[k].text.external)
        /\ StatementsAscending(outputs[k].text.local)
        /\ EveryNameListAscending(outputs[k].text)

\* the same without the order of the statements
C29_PartitionedWithSortedNames ==
    \A k \in 1..Len(outputs) :
        /\ Partitioned(outputs[k].text)
        /\ EveryNameListAscending(outputs[k].text)

====
